---- MODULE Spec2Model ----
(***************************************************************************)
(* Candidate-job match scoring and ranking of TalentSpotter:               *)
(*   utils/ranking_algorithm.py  SmartRankingAlgorithm                     *)
(*   utils/scoring.py            MatchScorer                               *)
(* Python floats are modelled as exact rationals <<numerator, denominator>>*)
(* in lowest terms with a positive denominator; the overall score of       *)
(* calculate_overall_score is computed in binary64 float arithmetic.       *)
(***************************************************************************)
EXTENDS Integers, Sequences, FiniteSets, TLC

VARIABLES
    db_job,               \* the JobDescription row of job_id, or NoneVal
    db_matches,           \* MatchScore rows of the job, in the order the query returns them
    ctor_weights,         \* the four weights passed to __init__ (history)
    base_weights,         \* self.base_weights
    updated_weights,      \* self.updated_weights
    use_dynamic_weights,  \* self.use_dynamic_weights
    job,                  \* self.job
    result,               \* outcome of the last SmartRankingAlgorithm / overall-score call
    scorer_in,            \* arguments of a MatchScorer component call
    scorer_out            \* its return value, or NoneVal before the call

vars == <<db_job, db_matches, ctor_weights, base_weights, updated_weights,
          use_dynamic_weights, job, result, scorer_in, scorer_out>>

rank_vars == <<db_job, db_matches, ctor_weights, base_weights, updated_weights,
               use_dynamic_weights, job, result>>

NoneVal == [none |-> TRUE]

-----------------------------------------------------------------------------
(* Bounds *)

MaxMatches == 2
MaxLimit == 2
MaxEducation == 2

-----------------------------------------------------------------------------
(* Exact rational arithmetic standing for Python float arithmetic *)

RECURSIVE Gcd(_, _)
Gcd(a, b) == IF b = 0 THEN a ELSE Gcd(b, a % b)

Abs(n) == IF n < 0 THEN -n ELSE n

Rat(n, d) ==
    LET s == IF d < 0 THEN -1 ELSE 1
        g == Gcd(Abs(n), Abs(d))
    IN  <<(s * n) \div g, (s * d) \div g>>

Zero == <<0, 1>>
One == <<1, 1>>
Hundred == <<100, 1>>
FromInt(n) == <<n, 1>>

RAdd(a, b) == Rat(a[1] * b[2] + b[1] * a[2], a[2] * b[2])
RSub(a, b) == Rat(a[1] * b[2] - b[1] * a[2], a[2] * b[2])
RMul(a, b) == Rat(a[1] * b[1], a[2] * b[2])
RDiv(a, b) == Rat(a[1] * b[2], a[2] * b[1])
RLt(a, b) == a[1] * b[2] < b[1] * a[2]
RLe(a, b) == a[1] * b[2] <= b[1] * a[2]
RGe(a, b) == RLe(b, a)
RGt(a, b) == RLt(b, a)

-----------------------------------------------------------------------------
(* Weights *)

Components == {"skills", "experience", "education", "certifications"}

W(s, e, d, c) ==
    [skills |-> s, experience |-> e, education |-> d, certifications |-> c]

WeightSum(w) ==
    RAdd(RAdd(RAdd(w.skills, w.experience), w.education), w.certifications)

\* the 0.1 added to a weight by either rule
WeightStep == Rat(1, 10)

\* __init__ defaults
DefaultWeights == W(Rat(4, 10), Rat(3, 10), Rat(2, 10), Rat(1, 10))

\* constructor arguments explored: the defaults, weights that do not sum to 1,
\* an experience weight in (0.9, 1), and weights of exactly 1.0
CtorWeights ==
    { DefaultWeights,
      W(Rat(8, 10), Rat(6, 10), Rat(4, 10), Rat(2, 10)),
      W(Rat(4, 10), Rat(95, 100), Rat(2, 10), Rat(1, 10)),
      W(Rat(5, 10), Rat(95, 100), Rat(5, 10), Rat(5, 10)),
      W(Rat(4, 10), One, Rat(2, 10), Rat(1, 10)),
      W(One, Rat(3, 10), Rat(2, 10), Rat(1, 10)) }

-----------------------------------------------------------------------------
(* Job descriptions.  required_skills is the stored mapping from a category *)
(* name to the number of skills listed under it.                            *)

TwoKeys == {"technical_skills", "soft_skills"}
SixKeys == TwoKeys \cup {"languages", "frameworks", "tools", "domain_skills"}

Jobs ==
    { [required_skills |-> [k \in TwoKeys |-> IF k = "technical_skills" THEN 2 ELSE 1],
       required_experience |-> 3],
      [required_skills |-> [k \in TwoKeys |-> IF k = "technical_skills" THEN 6 ELSE 0],
       required_experience |-> 7],
      [required_skills |-> [k \in SixKeys |-> 1],
       required_experience |-> 3],
      [required_skills |-> [k \in SixKeys |-> 1],
       required_experience |-> 7] }

\* JobDescription.skills_dict(): the parsed required_skills mapping
skills_dict(j) == j.required_skills

\* Python len() of a dict: its number of keys
DictLen(d) == Cardinality(DOMAIN d)

RECURSIVE SumOver(_, _)
SumOver(f, S) ==
    IF S = {} THEN 0
    ELSE LET k == CHOOSE x \in S : TRUE IN f[k] + SumOver(f, S \ {k})

\* number of required skills of a job, technical plus soft plus any other category
RequiredSkillCount(j) == SumOver(j.required_skills, DOMAIN j.required_skills)

-----------------------------------------------------------------------------
(* Match records *)

ScoreProfiles ==
    { <<100, 0, 0, 0>>, <<0, 100, 0, 100>>, <<50, 50, 50, 50>> }

MatchOf(id, p) ==
    [match_id |-> id, skills_score |-> p[1], experience_score |-> p[2],
     education_score |-> p[3], certifications_score |-> p[4]]

\* the rows of one job, in any read order; no two rows carry the same profile
MatchTables ==
    UNION { { [i \in 1..n |-> MatchOf(i, ps[i])] :
                ps \in {f \in [1..n -> ScoreProfiles] :
                           \A a, b \in 1..n : a # b => f[a] # f[b]} }
            : n \in 0..MaxMatches }

-----------------------------------------------------------------------------
(* SmartRankingAlgorithm *)

Returned(op, a, v) ==
    [op |-> op, args |-> a, status |-> "returned", error |-> "", value |-> v]
Raised(op, a, e) ==
    [op |-> op, args |-> a, status |-> "raised", error |-> e, value |-> NoneVal]

\* _load_job_description: the row of job_id; a missing row raises ValueError
JobFound(row) == row # NoneVal

\* "if len(job_skills) > 5" (Rule 1)
Rule1Fires(j) == DictLen(skills_dict(j)) > 5

\* "if self.job.required_experience > 5" (Rule 2)
Rule2Fires(j) == j.required_experience > 5

\* Rule 1: weights['skills'] += 0.1, the other three are recomputed from
\* self.base_weights times factor
ApplyRule1(w, base) ==
    LET s == RAdd(w.skills, WeightStep)
        factor == RDiv(RSub(One, s), RSub(One, base.skills))
    IN  W(s, RMul(base.experience, factor), RMul(base.education, factor),
          RMul(base.certifications, factor))

\* Rule 2: weights['experience'] += 0.1, the other three are recomputed from
\* self.base_weights times factor
ApplyRule2(w, base) ==
    LET e == RAdd(w.experience, WeightStep)
        factor == RDiv(RSub(One, e), RSub(One, base.experience))
    IN  W(RMul(base.skills, factor), e, RMul(base.education, factor),
          RMul(base.certifications, factor))

\* "if total > 0: weights = {k: v / total ...}"
NormalizeWeights(w) ==
    LET total == WeightSum(w)
    IN  IF RGt(total, Zero)
        THEN W(RDiv(w.skills, total), RDiv(w.experience, total),
               RDiv(w.education, total), RDiv(w.certifications, total))
        ELSE w

\* the float division of either rule raises ZeroDivisionError when its
\* denominator 1.0 - self.base_weights[...] is 0.0
DynamicWeightsRaise(base, j) ==
    \/ Rule1Fires(j) /\ RSub(One, base.skills) = Zero
    \/ Rule2Fires(j) /\ RSub(One, base.experience) = Zero

DynamicWeightsCompounding(base, j) ==
    LET w0 == updated_weights
        w1 == IF Rule1Fires(j) THEN ApplyRule1(w0, base) ELSE w0
        w2 == IF Rule2Fires(j) THEN ApplyRule2(w1, base) ELSE w1
    IN  NormalizeWeights(w2)

\* the dict assigned to self.updated_weights and returned (when nothing raises)
DynamicWeights(base, j) ==
    LET w0 == base
        w1 == IF Rule1Fires(j) THEN ApplyRule1(w0, base) ELSE w0
        w2 == IF Rule2Fires(j) THEN ApplyRule2(w1, base) ELSE w1
    IN  NormalizeWeights(w2)

\* the branches taken by one call and the weights dict after each rule, before
\* the final normalisation
DynamicWeightsSteps(base, j) ==
    LET w0 == base
        w1 == IF Rule1Fires(j) THEN ApplyRule1(w0, base) ELSE w0
        w2 == IF Rule2Fires(j) THEN ApplyRule2(w1, base) ELSE w1
    IN  [rule1 |-> Rule1Fires(j), rule2 |-> Rule2Fires(j),
         after_rule1 |-> w1, after_rule2 |-> w2]

\* a returned call together with the steps it went through
ReturnedWithSteps(op, v, steps) ==
    [op |-> op, args |-> <<>>, status |-> "returned", error |-> "", value |-> v,
     steps |-> steps]

BaseWeightsAliased(base, j) == DynamicWeights(base, j)

\* self.base_weights after _calculate_dynamic_weights: every write of the
\* method goes to the copy made by self.base_weights.copy()
BaseWeightsAfterDynamic(base, j) == base

\* _calculate_weighted_score: the weights it reads
WeightsInUse(dyn, upd, base) == IF dyn THEN upd ELSE base

WeightedScoreWrongKey(m, w) ==
    RAdd(RAdd(RAdd(RMul(FromInt(m.skills_score), w.skills),
                   RMul(FromInt(m.experience_score), w.skills)),
              RMul(FromInt(m.education_score), w.education)),
         RMul(FromInt(m.certifications_score), w.certifications))

\* _calculate_weighted_score: the weighted sum of the four component scores
WeightedScore(m, w) ==
    RAdd(RAdd(RAdd(RMul(FromInt(m.skills_score), w.skills),
                   RMul(FromInt(m.experience_score), w.experience)),
              RMul(FromInt(m.education_score), w.education)),
         RMul(FromInt(m.certifications_score), w.certifications))

\* candidate_entry built in the loop of rank_candidates
CandidateEntry(m, w) ==
    [match_id |-> m.match_id,
     overall_score |-> WeightedScore(m, w),
     skills_score |-> m.skills_score,
     experience_score |-> m.experience_score,
     education_score |-> m.education_score,
     certifications_score |-> m.certifications_score,
     annotated |-> FALSE]

\* the sort key: lambda x: x['overall_score']
SortKey(c) == c.overall_score

\* sorted(..., reverse=True) is stable: an entry goes after every entry whose
\* key is greater than or equal to its own
RECURSIVE InsertAsc(_, _)
InsertAsc(c, sorted) ==
    IF sorted = <<>> THEN <<c>>
    ELSE IF RLe(SortKey(Head(sorted)), SortKey(c))
         THEN <<Head(sorted)>> \o InsertAsc(c, Tail(sorted))
         ELSE <<c>> \o sorted

RECURSIVE InsertDesc(_, _)
InsertDesc(c, sorted) ==
    IF sorted = <<>> THEN <<c>>
    ELSE IF RGe(SortKey(Head(sorted)), SortKey(c))
         THEN <<Head(sorted)>> \o InsertDesc(c, Tail(sorted))
         ELSE <<c>> \o sorted

RECURSIVE SortedDesc(_)
SortedDesc(entries) ==
    IF entries = <<>> THEN <<>>
    ELSE InsertDesc(entries[Len(entries)],
                    SortedDesc(SubSeq(entries, 1, Len(entries) - 1)))

\* candidates_with_scores followed by the sort
RankedCandidates(matches, w) ==
    SortedDesc([i \in 1..Len(matches) |-> CandidateEntry(matches[i], w)])

\* explain_ranking(ranked_candidates, job_data): the candidate numbers for
\* which the returned explanation carries a 'candidate_insights' entry
Explanations(n) == { {}, {k \in 1..n : k = 1} }

\* rank_candidates(explain), with ins the explanation explain_ranking would
\* return: the outcome and the fields of self it leaves behind
RankOutcome(explain, ins) ==
    IF job = NoneVal /\ ~JobFound(db_job)
    THEN [status |-> "raised", error |-> "ValueError", job |-> job,
          base |-> base_weights, updated |-> updated_weights, value |-> NoneVal]
    ELSE
      LET j == IF job = NoneVal THEN db_job ELSE job
      IN  IF use_dynamic_weights /\ DynamicWeightsRaise(base_weights, j)
          THEN [status |-> "raised", error |-> "ZeroDivisionError", job |-> j,
                base |-> base_weights, updated |-> updated_weights,
                value |-> NoneVal]
          ELSE
            LET upd == IF use_dynamic_weights
                       THEN DynamicWeights(base_weights, j)
                       ELSE updated_weights
                base == IF use_dynamic_weights
                        THEN BaseWeightsAfterDynamic(base_weights, j)
                        ELSE base_weights
                w == WeightsInUse(use_dynamic_weights, upd, base)
                ranked == RankedCandidates(db_matches, w)
                explained == explain /\ ranked # <<>>
            IN  [status |-> "returned", error |-> "", job |-> j,
                 base |-> base, updated |-> upd,
                 value |-> [candidates |-> ranked,
                            has_explanation |-> explained,
                            explanation |-> IF explained THEN ins ELSE {},
                            weights_used |-> upd]]

\* Python's seq[:limit] for limit >= 0
Take(seq, limit) == SubSeq(seq, 1, IF limit < Len(seq) THEN limit ELSE Len(seq))

TopCandidatesStrict(candidates, limit, threshold) ==
    LET Qualifies(c) == RGt(c.overall_score, threshold)
    IN  Take(SelectSeq(candidates, Qualifies), limit)

\* get_top_candidates: [c for c in candidates if c['overall_score'] >= threshold][:limit]
TopCandidates(candidates, limit, threshold) ==
    LET Qualifies(c) == RGe(c.overall_score, threshold)
    IN  Take(SelectSeq(candidates, Qualifies), limit)

\* generate_shortlist: the loop that attaches strengths and ranking_reason to
\* the candidates whose number has an insight
Shortlist(candidates, limit, ins) ==
    LET top == Take(candidates, limit)
    IN  [i \in 1..Len(top) |-> [top[i] EXCEPT !.annotated = (i \in ins)]]

\* thresholds passed to get_top_candidates (0.5 is the default)
Thresholds == { Rat(1, 2), FromInt(40), FromInt(50) }

Frame == UNCHANGED <<db_job, db_matches, ctor_weights, use_dynamic_weights,
                     scorer_in, scorer_out>>

\* a direct call of _calculate_dynamic_weights()
CalculateDynamicWeights ==
    /\ IF job = NoneVal /\ ~JobFound(db_job)
       THEN /\ result' = Raised("_calculate_dynamic_weights", <<>>, "ValueError")
            /\ UNCHANGED <<job, base_weights, updated_weights>>
       ELSE LET j == IF job = NoneVal THEN db_job ELSE job
            IN  /\ job' = j
                /\ IF DynamicWeightsRaise(base_weights, j)
                   THEN /\ result' = Raised("_calculate_dynamic_weights", <<>>,
                                            "ZeroDivisionError")
                        /\ UNCHANGED <<base_weights, updated_weights>>
                   ELSE /\ updated_weights' = DynamicWeights(base_weights, j)
                        /\ base_weights' = BaseWeightsAfterDynamic(base_weights, j)
                        /\ result' = ReturnedWithSteps("_calculate_dynamic_weights",
                                              DynamicWeights(base_weights, j),
                                              DynamicWeightsSteps(base_weights, j))
    /\ Frame

\* rank_candidates(explain)
RankCandidates ==
    \E explain \in BOOLEAN : \E ins \in Explanations(Len(db_matches)) :
        \E out \in {RankOutcome(explain, ins)} :
            /\ job' = out.job
            /\ base_weights' = out.base
            /\ updated_weights' = out.updated
            /\ result' = IF out.status = "raised"
                         THEN Raised("rank_candidates", <<explain>>, out.error)
                         ELSE Returned("rank_candidates", <<explain>>, out.value)
            /\ Frame

\* get_top_candidates(limit, threshold)
GetTopCandidates ==
    \E out \in {RankOutcome(FALSE, {})} :
        \E limit \in 0..MaxLimit : \E threshold \in Thresholds :
            /\ job' = out.job
            /\ base_weights' = out.base
            /\ updated_weights' = out.updated
            /\ result' = IF out.status = "raised"
                         THEN Raised("get_top_candidates", <<limit, threshold>>,
                                     out.error)
                         ELSE Returned("get_top_candidates", <<limit, threshold>>,
                                  [ranked |-> out.value.candidates,
                                   top |-> TopCandidates(out.value.candidates,
                                                         limit, threshold)])
            /\ Frame

\* generate_shortlist(limit): results['explanation'] raises KeyError when
\* rank_candidates returned no 'explanation' key
GenerateShortlist ==
    \E ins \in Explanations(Len(db_matches)) : \E out \in {RankOutcome(TRUE, ins)} :
        \E limit \in 0..MaxLimit :
            /\ job' = out.job
            /\ base_weights' = out.base
            /\ updated_weights' = out.updated
            /\ result' = IF out.status = "raised"
                         THEN Raised("generate_shortlist", <<limit>>, out.error)
                         ELSE IF ~out.value.has_explanation
                         THEN Raised("generate_shortlist", <<limit>>, "KeyError")
                         ELSE Returned("generate_shortlist", <<limit>>,
                                  [shortlist |-> Shortlist(out.value.candidates,
                                                           limit, ins),
                                   explanation |-> ins,
                                   weights_used |-> out.value.weights_used])
            /\ Frame

-----------------------------------------------------------------------------
(* MatchScorer.calculate_overall_score *)

OverallComponents ==
    {"skills_match", "experience_match", "education_match", "certification_match"}

\* the weights dict inside calculate_overall_score
OverallWeights ==
    [c \in OverallComponents |->
        CASE c = "skills_match" -> Rat(4, 10)
          [] c = "experience_match" -> Rat(3, 10)
          [] c = "education_match" -> Rat(2, 10)
          [] c = "certification_match" -> Rat(1, 10)]

\* "component in scores and 'score' in scores[component]"
HasScore(scores, c) == c \in DOMAIN scores /\ "score" \in DOMAIN scores[c]

RECURSIVE RSumOver(_, _)
RSumOver(f, S) ==
    IF S = {} THEN Zero
    ELSE LET k == CHOOSE x \in S : TRUE IN RAdd(f[k], RSumOver(f, S \ {k}))

\* the summary section reads scores[c]['score'] of these three components
\* whenever the component is present, and raises KeyError if it has no score
SummaryRaises(scores) ==
    \E c \in {"skills_match", "experience_match", "education_match"} :
        c \in DOMAIN scores /\ "score" \notin DOMAIN scores[c]

\* the 'score' of the dict returned by calculate_overall_score
calculate_overall_score(scores) ==
    LET used == {c \in OverallComponents : HasScore(scores, c)}
        weighted_sum ==
            RSumOver([c \in used |-> RMul(FromInt(scores[c].score), OverallWeights[c])],
                     used)
        used_weights == RSumOver([c \in used |-> OverallWeights[c]], used)
    IN  IF SummaryRaises(scores) THEN Zero
        ELSE IF RGt(used_weights, Zero) THEN RDiv(weighted_sum, used_weights)
        ELSE Zero

\* the scores dict compiled from a match record, restricted to some components
ScoresDict(m, present) ==
    [c \in present |->
        [score |-> CASE c = "skills_match" -> m.skills_score
                     [] c = "experience_match" -> m.experience_score
                     [] c = "education_match" -> m.education_score
                     [] c = "certification_match" -> m.certifications_score]]

\* which component entries the scores dict passed in carries
PresentSets ==
    { OverallComponents, {"skills_match", "experience_match"}, {} }

\* MatchScorer.calculate_overall_score(scores) on the component scores of a match
CalculateOverallScore ==
    \E i \in 1..Len(db_matches) : \E present \in PresentSets :
        LET scores == ScoresDict(db_matches[i], present)
        IN  /\ result' = Returned("calculate_overall_score", scores,
                                  [score |-> calculate_overall_score(scores)])
            /\ UNCHANGED <<job, base_weights, updated_weights>>
            /\ Frame

-----------------------------------------------------------------------------
(* The ranking specification: one SmartRankingAlgorithm over one job *)

Init ==
    /\ db_job \in Jobs \cup {NoneVal}
    /\ db_matches \in MatchTables
    /\ db_job = NoneVal => db_matches = <<>>
    /\ ctor_weights \in CtorWeights
    /\ base_weights = ctor_weights
    /\ updated_weights = ctor_weights
    /\ use_dynamic_weights \in BOOLEAN
    /\ job = NoneVal
    /\ result = NoneVal
    /\ scorer_in = NoneVal
    /\ scorer_out = NoneVal

Next ==
    \/ CalculateDynamicWeights
    \/ RankCandidates
    \/ GetTopCandidates
    \/ GenerateShortlist
    \/ CalculateOverallScore

Spec == Init /\ [][Next]_vars

-----------------------------------------------------------------------------
(* Text helpers: Python str.lower() and the substring test "a in b" *)

UpperCase == "ABCDEFGHIJKLMNOPQRSTUVWXYZ"
LowerCase == "abcdefghijklmnopqrstuvwxyz"

CharAt(s, i) == SubSeq(s, i, i)

LowerChar(c) ==
    IF \E k \in 1..26 : CharAt(UpperCase, k) = c
    THEN CharAt(LowerCase, CHOOSE k \in 1..26 : CharAt(UpperCase, k) = c)
    ELSE c

RECURSIVE LowerFrom(_, _)
LowerFrom(s, i) ==
    IF i > Len(s) THEN "" ELSE LowerChar(CharAt(s, i)) \o LowerFrom(s, i + 1)

\* s.lower()
Lower(s) == LowerFrom(s, 1)

\* pat in text
Contains(text, pat) ==
    \E i \in 1..(Len(text) - Len(pat) + 1) : SubSeq(text, i, i + Len(pat) - 1) = pat

-----------------------------------------------------------------------------
(* MatchScorer.calculate_education_score *)

\* the education_levels list; a level is the 0-based index of a phrase
education_levels ==
    << "high school",
       "associate's degree", "associate degree", "associates",
       "bachelor's degree", "bachelor degree", "bachelors", "b.s.", "b.a.",
       "master's degree", "master degree", "masters", "m.s.", "m.a.", "mba",
       "doctorate", "doctoral", "phd", "ph.d." >>

\* 0-based indices at which a phrase of the list occurs in the lower-cased text
LevelsFound(text) ==
    {i \in 0..(Len(education_levels) - 1) : Contains(Lower(text), education_levels[i + 1])}

Minimum(S) == CHOOSE x \in S : \A y \in S : x <= y
Maximum(S) == CHOOSE x \in S : \A y \in S : x >= y

\* "for i, level in enumerate(education_levels): if level in text: ...; break",
\* starting from 0: the index of the first phrase found, 0 when none is found
LevelOf(text) == IF LevelsFound(text) = {} THEN 0 ELSE Minimum(LevelsFound(text))

\* highest_level after the loop over candidate_education
HighestLevel(entries) ==
    Maximum({0} \cup {LevelOf(entries[k].degree) : k \in 1..Len(entries)})

\* the score returned by calculate_education_score
calculate_education_score(job_education, candidate_education) ==
    IF job_education = "" \/ Lower(job_education) = "not specified"
    THEN Hundred
    ELSE LET required_level == LevelOf(job_education)
             highest_level == HighestLevel(candidate_education)
         IN  IF highest_level >= required_level THEN Hundred
             ELSE IF required_level > 0
                  THEN RMul(Rat(highest_level, required_level), Hundred)
                  ELSE Zero

\* required_education texts
RequiredEducations ==
    { "", "Not specified", "High school", "Bachelor's degree in Computer Science",
      "Bachelors", "Master's degree", "MBA", "PhD", "Diploma in Arts" }

\* degree texts of candidate education entries
DegreeTexts ==
    { "High school diploma", "Associate degree", "Bachelor's degree",
      "Bachelor of Science in Computer Engineering",
      "Master of Science in Computer Science", "MBA" }

EducationLists ==
    UNION { [1..n -> {[degree |-> t] : t \in DegreeTexts}] : n \in 0..MaxEducation }

EducationInputs ==
    { [op |-> "education", job_education |-> r, candidate_education |-> es] :
        r \in RequiredEducations, es \in EducationLists }

\* MatchScorer.calculate_education_score(job_education, candidate_education)
CalculateEducationScore ==
    /\ scorer_in.op = "education"
    /\ scorer_out = NoneVal
    /\ scorer_out' = [score |-> calculate_education_score(scorer_in.job_education,
                                                          scorer_in.candidate_education)]
    /\ UNCHANGED <<rank_vars, scorer_in>>

-----------------------------------------------------------------------------
(* Python values of the scorers' arguments: every value carries its type *)

PyStr(s) == [str |-> s]
PyInt(n) == [int |-> n]
PyList(items) == [list |-> items]
PyDict(fields) == [dict |-> fields]

\* a key the dict does not hold
Absent == [absent |-> TRUE]

IsStr(v) == DOMAIN v = {"str"}
IsInt(v) == DOMAIN v = {"int"}
IsList(v) == DOMAIN v = {"list"}
IsDict(v) == DOMAIN v = {"dict"}

\* d.get(key, default); AttributeError unless d is a dict
GetRaises(d) == ~IsDict(d)
Get(d, key, default) ==
    IF key \in DOMAIN d.dict /\ d.dict[key] # Absent THEN d.dict[key] ELSE default

\* a list of str
StrList(texts) == PyList([i \in 1..Len(texts) |-> PyStr(texts[i])])

\* [s.lower() for s in v]: TypeError unless v is a list, AttributeError for an
\* element that is not a str
LowerAllRaises(v) ==
    \/ ~IsList(v)
    \/ \E i \in 1..Len(v.list) : ~IsStr(v.list[i])
LowerAll(v) == [i \in 1..Len(v.list) |-> Lower(v.list[i].str)]

\* the same body without the try/except: the exception leaves the function
TryExceptUncaught(raises, body, handler) ==
    [status |-> IF raises THEN "raised" ELSE "returned",
     value |-> IF raises THEN handler ELSE body]

\* the result of a function whose body runs inside try/except Exception: the
\* value the body returns, or the value of the except branch when it raises
TryExcept(raises, body, handler) ==
    [status |-> "returned", value |-> IF raises THEN handler ELSE body]

-----------------------------------------------------------------------------
(* difflib.SequenceMatcher(None, a, b).ratio() *)

\* length of the common run of a from i and b from j
RECURSIVE CommonRun(_, _, _, _)
CommonRun(a, b, i, j) ==
    IF i > Len(a) \/ j > Len(b) \/ CharAt(a, i) # CharAt(b, j) THEN 0
    ELSE 1 + CommonRun(a, b, i + 1, j + 1)

\* of the blocks starting at i0 in a, the one starting earliest in b
EarliestInB(starts, i0, size) ==
    <<i0, Minimum({p[2] : p \in {q \in starts : q[1] = i0}}), size>>

\* of the blocks of one size, the one starting earliest in a
EarliestInA(starts, size) == EarliestInB(starts, Minimum({p[1] : p \in starts}), size)

LongestOfSize(a, b, size) ==
    IF size = 0 THEN <<1, 1, 0>>
    ELSE EarliestInA({p \in (1..Len(a)) \X (1..Len(b)) : CommonRun(a, b, p[1], p[2]) = size},
                     size)

\* find_longest_match: the longest common block, of those the one starting
\* earliest in a, of those the one starting earliest in b; <<i, j, size>>
LongestMatch(a, b) ==
    LongestOfSize(a, b, Maximum({0} \cup {CommonRun(a, b, i, j) :
                                             i \in 1..Len(a), j \in 1..Len(b)}))

\* get_matching_blocks: the total size of the blocks found by splitting around
\* the longest match m, recursively to its left and to its right
RECURSIVE MatchingSize(_, _)
MatchingAround(a, b, m) ==
    IF m[3] = 0 THEN 0
    ELSE m[3]
         + MatchingSize(SubSeq(a, 1, m[1] - 1), SubSeq(b, 1, m[2] - 1))
         + MatchingSize(SubSeq(a, m[1] + m[3], Len(a)), SubSeq(b, m[2] + m[3], Len(b)))

MatchingSize(a, b) ==
    IF Len(a) = 0 \/ Len(b) = 0 THEN 0 ELSE MatchingAround(a, b, LongestMatch(a, b))

\* ratio(): 2.0 * matches / (len(a) + len(b)), 1.0 for two empty strings
SequenceRatio(a, b) ==
    IF Len(a) + Len(b) = 0 THEN One
    ELSE Rat(2 * MatchingSize(a, b), Len(a) + Len(b))

-----------------------------------------------------------------------------
(* MatchScorer.calculate_skills_score *)

\* "similarity > 0.8 or subset_match"
SimilarSkill(job_skill, candidate_skill) ==
    \/ RGt(SequenceRatio(job_skill, candidate_skill), Rat(4, 5))
    \/ Contains(candidate_skill, job_skill)
    \/ Contains(job_skill, candidate_skill)

InList(x, list) == \E i \in 1..Len(list) : list[i] = x

SkillClassFirstHit(job_skill, candidate_skills) ==
    LET hits == {i \in 1..Len(candidate_skills) :
                    \/ candidate_skills[i] = job_skill
                    \/ SimilarSkill(job_skill, candidate_skills[i])}
    IN  IF hits = {} THEN "missing"
        ELSE IF candidate_skills[Minimum(hits)] = job_skill THEN "matched"
             ELSE "similar"

\* the branch one required skill takes in the loop of _calculate_skill_set_match
SkillClass(job_skill, candidate_skills) ==
    IF InList(job_skill, candidate_skills) THEN "matched"
    ELSE IF \E i \in 1..Len(candidate_skills) : SimilarSkill(job_skill, candidate_skills[i])
         THEN "similar"
         ELSE "missing"

\* number of required skills (positions of the list) that take a branch
ClassCount(job_skills, candidate_skills, class) ==
    Cardinality({i \in 1..Len(job_skills) :
                    SkillClass(job_skills[i], candidate_skills) = class})

SimilarCreditAboveOne == Rat(6, 5)

\* similar matches count for 0.8 of a match
SimilarCredit == Rat(4, 5)

\* the score returned by _calculate_skill_set_match
SkillSetScore(job_skills, candidate_skills) ==
    IF Len(job_skills) = 0 THEN Hundred
    ELSE LET match_count ==
                 RAdd(FromInt(ClassCount(job_skills, candidate_skills, "matched")),
                      RMul(FromInt(ClassCount(job_skills, candidate_skills, "similar")),
                           SimilarCredit))
         IN  RMul(RDiv(match_count, FromInt(Len(job_skills))), Hundred)

TechnicalShareHalf == Rat(1, 2)

\* "final_score = (tech_score * 0.7) + (soft_score * 0.3)"
TechnicalShare == Rat(7, 10)
SoftShare == Rat(3, 10)

\* lines 39-56: final_score from the two category scores and the numbers of
\* required technical and soft skills
CombinedSkillsScore(technical_required, soft_required, tech_score, soft_score) ==
    [score |-> IF technical_required = 0 /\ soft_required = 0 THEN Hundred
               ELSE IF technical_required > 0 /\ soft_required > 0
                    THEN RAdd(RMul(tech_score, TechnicalShare), RMul(soft_score, SoftShare))
                    ELSE IF technical_required > 0 THEN tech_score ELSE soft_score,
     tech_score |-> tech_score,
     soft_score |-> soft_score]

\* the two category scores of the four lower-cased lists, and final_score
SkillsFinalScore(job_technical, job_soft, candidate_technical, candidate_soft) ==
    CombinedSkillsScore(Len(job_technical), Len(job_soft),
                        SkillSetScore(job_technical, candidate_technical),
                        SkillSetScore(job_soft, candidate_soft))

\* the four comprehensions of lines 32-36 raise
SkillsScoreRaises(job_skills, candidate_skills) ==
    \/ GetRaises(job_skills)
    \/ LowerAllRaises(Get(job_skills, "technical_skills", PyList(<<>>)))
    \/ LowerAllRaises(Get(job_skills, "soft_skills", PyList(<<>>)))
    \/ GetRaises(candidate_skills)
    \/ LowerAllRaises(Get(candidate_skills, "technical", PyList(<<>>)))
    \/ LowerAllRaises(Get(candidate_skills, "soft", PyList(<<>>)))

SkillsErrorScore == [score |-> Zero, tech_score |-> NoneVal, soft_score |-> NoneVal]

\* calculate_skills_score(job_skills, candidate_skills)
calculate_skills_score(job_skills, candidate_skills) ==
    TryExcept(SkillsScoreRaises(job_skills, candidate_skills),
              SkillsFinalScore(LowerAll(Get(job_skills, "technical_skills", PyList(<<>>))),
                               LowerAll(Get(job_skills, "soft_skills", PyList(<<>>))),
                               LowerAll(Get(candidate_skills, "technical", PyList(<<>>))),
                               LowerAll(Get(candidate_skills, "soft", PyList(<<>>)))),
              SkillsErrorScore)

\* required_skills values: Scenario A of the module's sample data, a job that
\* requires only technical skills, one that requires only soft skills, one with
\* a repeated and a near-miss skill, and two without requirements
JobSkillsValues ==
    { PyDict([technical_skills |-> StrList(<<"Python", "Django", "Flask", "SQL", "Git">>),
              soft_skills |-> StrList(<<"Communication", "Teamwork", "Problem-solving">>)]),
      PyDict([technical_skills |-> StrList(<<"Python", "React">>),
              soft_skills |-> StrList(<<>>)]),
      PyDict([technical_skills |-> Absent,
              soft_skills |-> StrList(<<"Leadership", "Teamwork">>)]),
      PyDict([technical_skills |-> StrList(<<"Node.js", "SQL", "SQL">>),
              soft_skills |-> StrList(<<"Teamwork">>)]),
      PyDict([technical_skills |-> StrList(<<>>), soft_skills |-> StrList(<<>>)]),
      PyDict([technical_skills |-> Absent, soft_skills |-> Absent]) }

\* candidate skills values: Scenario A, near misses, a similar skill ahead of
\* the equal one, missing lists, a list holding an element that is not a str,
\* and None
CandidateSkillsValues ==
    { PyDict([technical |-> StrList(<<"Python", "JavaScript", "Django", "Flask",
                                      "React", "SQL", "Git">>),
              soft |-> StrList(<<"Communication", "Teamwork", "Leadership">>)]),
      PyDict([technical |-> StrList(<<"ReactJS", "python">>), soft |-> StrList(<<>>)]),
      PyDict([technical |-> StrList(<<"nodejs", "MySQL">>),
              soft |-> StrList(<<"Team work">>)]),
      PyDict([technical |-> StrList(<<"MySQL", "SQL", "ReactJS", "nodejs">>),
              soft |-> StrList(<<"Team work", "Teamwork">>)]),
      PyDict([technical |-> Absent, soft |-> Absent]),
      PyDict([technical |-> PyList(<<PyInt(5)>>), soft |-> StrList(<<>>)]),
      PyDict([technical |-> StrList(<<"Python">>), soft |-> PyList(<<PyInt(5)>>)]),
      NoneVal }

SkillsInputs ==
    { [op |-> "skills", job_skills |-> j, candidate_skills |-> c] :
        j \in JobSkillsValues, c \in CandidateSkillsValues }

\* the texts of the str elements of a list value
TextsOf(v) ==
    IF IsList(v) THEN {v.list[i].str : i \in {k \in 1..Len(v.list) : IsStr(v.list[k])}}
    ELSE {}

\* the skills a job requires, as written in its two lists
RequiredSkillTexts(job_skills) ==
    IF IsDict(job_skills)
    THEN TextsOf(Get(job_skills, "technical_skills", PyList(<<>>)))
         \cup TextsOf(Get(job_skills, "soft_skills", PyList(<<>>)))
    ELSE {}

\* candidate_skills with one more skill at the front or at the back of a list
WithSkill(candidate_skills, key, text, front) ==
    LET old == Get(candidate_skills, key, PyList(<<>>)).list
        new == IF front THEN <<PyStr(text)>> \o old ELSE Append(old, PyStr(text))
    IN  PyDict([candidate_skills.dict EXCEPT ![key] = PyList(new)])

SkillsOut(r, previous, added) ==
    [status |-> r.status, score |-> r.value.score, tech_score |-> r.value.tech_score,
     soft_score |-> r.value.soft_score, previous |-> previous, added |-> added]

\* MatchScorer.calculate_skills_score(job_skills, candidate_skills)
CalculateSkillsScore ==
    /\ scorer_in.op = "skills"
    /\ scorer_out = NoneVal
    /\ scorer_out' = SkillsOut(calculate_skills_score(scorer_in.job_skills,
                                                      scorer_in.candidate_skills),
                               NoneVal, NoneVal)
    /\ UNCHANGED <<rank_vars, scorer_in>>

\* the candidate gains a skill the job requires and is scored again
AddSkillAndRescore ==
    /\ scorer_in.op = "skills"
    /\ scorer_out # NoneVal
    /\ scorer_out.previous = NoneVal
    /\ IsDict(scorer_in.candidate_skills)
    /\ \E key \in {"technical", "soft"},
          text \in RequiredSkillTexts(scorer_in.job_skills), front \in BOOLEAN :
          /\ IsList(Get(scorer_in.candidate_skills, key, PyList(<<>>)))
          /\ LET c == WithSkill(scorer_in.candidate_skills, key, text, front)
             IN  /\ scorer_in' = [scorer_in EXCEPT !.candidate_skills = c]
                 /\ scorer_out' = SkillsOut(calculate_skills_score(scorer_in.job_skills, c),
                                            scorer_out.score,
                                            [key |-> key, text |-> text])
    /\ UNCHANGED rank_vars

-----------------------------------------------------------------------------
(* MatchScorer.calculate_certification_score *)

\* "not v": None, an empty list, an empty str and 0 are false
Falsy(v) ==
    \/ v = NoneVal
    \/ IsList(v) /\ Len(v.list) = 0
    \/ IsStr(v) /\ Len(v.str) = 0
    \/ IsInt(v) /\ v.int = 0

CertificationFoundEqual(cert, candidate_certs) ==
    \E i \in 1..Len(candidate_certs) : candidate_certs[i] = cert

\* "if cert in candidate_cert or candidate_cert in cert" for some candidate_cert
CertificationFound(cert, candidate_certs) ==
    \E i \in 1..Len(candidate_certs) :
        Contains(candidate_certs[i], cert) \/ Contains(cert, candidate_certs[i])

\* matched_certs and missing_certs after the loop over job_certs
MatchedCerts(job_certs, candidate_certs) ==
    LET Found(cert) == CertificationFound(cert, candidate_certs)
    IN  SelectSeq(job_certs, Found)

MissingCerts(job_certs, candidate_certs) ==
    LET NotFound(cert) == ~CertificationFound(cert, candidate_certs)
    IN  SelectSeq(job_certs, NotFound)

\* "score = (len(matched_certs) / len(job_certs)) * 100" on the lower-cased lists
CertificationScore(job_certs, candidate_certs) ==
    RMul(Rat(Len(MatchedCerts(job_certs, candidate_certs)), Len(job_certs)), Hundred)

\* the two comprehensions that normalise the lists raise; they are reached only
\* when job_certifications is true
CertificationRaises(job_certifications, candidate_certifications) ==
    /\ ~Falsy(job_certifications)
    /\ \/ LowerAllRaises(job_certifications)
       \/ LowerAllRaises(candidate_certifications)

\* the two lists the details text of a call is written from; None when the
\* loop was not reached or the call ended in the except branch
CertificationDetails(job_certifications, candidate_certifications) ==
    IF Falsy(job_certifications)
       \/ CertificationRaises(job_certifications, candidate_certifications)
    THEN NoneVal
    ELSE [matched |-> MatchedCerts(LowerAll(job_certifications),
                                   LowerAll(candidate_certifications)),
          missing |-> MissingCerts(LowerAll(job_certifications),
                                   LowerAll(candidate_certifications))]

\* calculate_certification_score(job_certifications, candidate_certifications)
calculate_certification_score(job_certifications, candidate_certifications) ==
    TryExcept(CertificationRaises(job_certifications, candidate_certifications),
              [score |-> IF Falsy(job_certifications) THEN Hundred
                         ELSE CertificationScore(LowerAll(job_certifications),
                                                 LowerAll(candidate_certifications))],
              [score |-> Zero])

JobCertificationsValues ==
    { StrList(<<>>), NoneVal, StrList(<<"AWS Certified Developer">>),
      StrList(<<"AWS Certified Developer", "PMP">>), PyList(<<PyInt(5)>>) }

CandidateCertificationsValues ==
    { StrList(<<>>), StrList(<<"AWS Certified Developer", "Certified Scrum Master">>),
      StrList(<<"aws">>), StrList(<<"Project Management PMP">>), NoneVal,
      PyList(<<PyInt(5)>>), PyInt(7) }

CertificationInputs ==
    { [op |-> "certification", job_certifications |-> j, candidate_certifications |-> c] :
        j \in JobCertificationsValues, c \in CandidateCertificationsValues }

\* MatchScorer.calculate_certification_score(job_certifications, candidate_certifications)
CalculateCertificationScore ==
    /\ scorer_in.op = "certification"
    /\ scorer_out = NoneVal
    /\ LET r == calculate_certification_score(scorer_in.job_certifications,
                                              scorer_in.candidate_certifications)
       IN  scorer_out' = [status |-> r.status, score |-> r.value.score,
                          details |-> CertificationDetails(
                                          scorer_in.job_certifications,
                                          scorer_in.candidate_certifications)]
    /\ UNCHANGED <<rank_vars, scorer_in>>

-----------------------------------------------------------------------------
(* MatchScorer.calculate_experience_score *)

MaxExperience == 2

Digits == "0123456789"

IsDigit(c) == \E k \in 1..10 : CharAt(Digits, k) = c
DigitValue(c) == (CHOOSE k \in 1..10 : CharAt(Digits, k) = c) - 1

\* str(n) of a non-negative int
RECURSIVE IntText(_)
IntText(n) ==
    IF n < 10 THEN CharAt(Digits, n + 1)
    ELSE IntText(n \div 10) \o CharAt(Digits, (n % 10) + 1)

\* str(exp['duration'])
DurationText(v) ==
    IF IsStr(v) THEN v.str ELSE IF IsInt(v) THEN IntText(v.int) ELSE "None"

\* the last position of the run of digits that starts at position i
RECURSIVE DigitsEnd(_, _)
DigitsEnd(s, i) ==
    IF i + 1 <= Len(s) /\ IsDigit(CharAt(s, i + 1)) THEN DigitsEnd(s, i + 1) ELSE i

\* the number written by the digits at positions i..j
RECURSIVE DigitsValue(_, _, _)
DigitsValue(s, i, j) ==
    IF j < i THEN 0 ELSE 10 * DigitsValue(s, i, j - 1) + DigitValue(CharAt(s, j))

RECURSIVE Pow10(_)
Pow10(k) == IF k = 0 THEN 1 ELSE 10 * Pow10(k - 1)

\* re.search(r'(\d+(?:\.\d+)?)', text) finds a match
HasNumber(text) == \E i \in 1..Len(text) : IsDigit(CharAt(text, i))

\* float(match.group(1)): the leftmost run of digits, with a fraction when a
\* "." and a digit follow it
FirstNumber(text) ==
    LET i == Minimum({p \in 1..Len(text) : IsDigit(CharAt(text, p))})
        j == DigitsEnd(text, i)
        fraction == /\ j + 2 <= Len(text)
                    /\ CharAt(text, j + 1) = "."
                    /\ IsDigit(CharAt(text, j + 2))
        k == DigitsEnd(text, j + 2)
    IN  IF fraction
        THEN RAdd(FromInt(DigitsValue(text, i, j)),
                  Rat(DigitsValue(text, j + 2, k), Pow10(k - j - 1)))
        ELSE FromInt(DigitsValue(text, i, j))

\* duration of one entry after "if duration <= 0: duration = 1"
EntryDuration(exp) ==
    LET text == DurationText(Get(exp, "duration", Absent))
        duration == IF IsDict(exp) /\ Get(exp, "duration", Absent) # Absent
                       /\ HasNumber(text)
                    THEN FirstNumber(text) ELSE Zero
    IN  IF RLe(duration, Zero) THEN One ELSE duration

\* relevant_years after the loop (relevance is 1.0 for every entry)
RECURSIVE RelevantYears(_)
RelevantYears(entries) ==
    IF Len(entries) = 0 THEN Zero
    ELSE RAdd(EntryDuration(Head(entries)), RelevantYears(Tail(entries)))

\* lines 178-184
ExperienceScore(job_experience, entries) ==
    LET relevant_years == RelevantYears(entries)
    IN  IF RGe(relevant_years, FromInt(job_experience)) THEN Hundred
        ELSE RMul(RDiv(relevant_years, FromInt(job_experience)), Hundred)

\* "job_experience <= 0" raises TypeError unless job_experience is a number;
\* the loop raises TypeError unless candidate_experience is a list, and
\* exp.get raises AttributeError for an entry that is not a dict
ExperienceRaises(job_experience, candidate_experience) ==
    \/ ~IsInt(job_experience)
    \/ /\ job_experience.int > 0
       /\ \/ ~IsList(candidate_experience)
          \/ \E i \in 1..Len(candidate_experience.list) :
                ~IsDict(candidate_experience.list[i])

\* calculate_experience_score(job_experience, candidate_experience)
calculate_experience_score(job_experience, candidate_experience) ==
    TryExcept(ExperienceRaises(job_experience, candidate_experience),
              [score |-> IF job_experience.int <= 0 THEN Hundred
                         ELSE ExperienceScore(job_experience.int,
                                              candidate_experience.list)],
              [score |-> Zero])

\* required years of experience; None and a str are not numbers
JobExperienceValues == { PyInt(0), PyInt(2), PyInt(5), PyStr("five"), NoneVal }

\* experience entries: the two of the sample data, a fraction, a zero, a text
\* without a number, a number that is not a str, no duration, and a str
ExperienceEntries ==
    { PyDict([duration |-> PyStr("3 years")]), PyDict([duration |-> PyStr("2 years")]),
      PyDict([duration |-> PyStr("2.5 years")]), PyDict([duration |-> PyStr("0 years")]),
      PyDict([duration |-> PyStr("six months")]), PyDict([duration |-> PyInt(4)]),
      PyDict([duration |-> Absent]), PyStr("intern") }

ExperienceLists ==
    {NoneVal} \cup
    UNION { {PyList(es) : es \in [1..n -> ExperienceEntries]} : n \in 0..MaxExperience }

ExperienceInputs ==
    { [op |-> "experience", job_experience |-> j, candidate_experience |-> c] :
        j \in JobExperienceValues, c \in ExperienceLists }

\* MatchScorer.calculate_experience_score(job_experience, candidate_experience)
CalculateExperienceScore ==
    /\ scorer_in.op = "experience"
    /\ scorer_out = NoneVal
    /\ LET r == calculate_experience_score(scorer_in.job_experience,
                                           scorer_in.candidate_experience)
       IN  scorer_out' = [status |-> r.status, score |-> r.value.score]
    /\ UNCHANGED <<rank_vars, scorer_in>>

-----------------------------------------------------------------------------
(* Python float arithmetic: IEEE 754 binary64, round to nearest even.  A
   natural number is the sequence of its digits in base 2^LimbBits, least
   significant first and without leading zero digits; a positive float is a
   mantissa of MantissaBits bits scaled by 2^e, and 0.0 has the empty
   mantissa.  The scorers' values are far from overflow and underflow, which
   are left out. *)

MantissaBits == 53
LimbBits == 13

RECURSIVE Pow2(_)
Pow2(k) == IF k = 0 THEN 1 ELSE 2 * Pow2(k - 1)

Base == Pow2(LimbBits)

RECURSIVE Limbs(_)
Limbs(n) == IF n = 0 THEN <<>> ELSE <<n % Base>> \o Limbs(n \div Base)

ZeroLimbs(k) == [i \in 1..k |-> 0]

RECURSIVE Trim(_)
Trim(a) ==
    IF Len(a) = 0 THEN a
    ELSE IF a[Len(a)] # 0 THEN a
    ELSE Trim(SubSeq(a, 1, Len(a) - 1))

LimbAt(a, i) == IF i <= Len(a) THEN a[i] ELSE 0

\* the digits of a + b from position i on, given the carry into position i
RECURSIVE AddFrom(_, _, _, _)
AddFrom(a, b, i, carry) ==
    IF i > Len(a) /\ i > Len(b) THEN (IF carry = 0 THEN <<>> ELSE <<carry>>)
    ELSE LET s == LimbAt(a, i) + LimbAt(b, i) + carry
         IN  <<s % Base>> \o AddFrom(a, b, i + 1, s \div Base)

LimbsAdd(a, b) == Trim(AddFrom(a, b, 1, 0))

\* the digits of a - b from position i on, given the borrow from position i
RECURSIVE SubFrom(_, _, _, _)
SubFrom(a, b, i, borrow) ==
    IF i > Len(a) THEN <<>>
    ELSE LET d == a[i] - LimbAt(b, i) - borrow
         IN  <<IF d < 0 THEN d + Base ELSE d>>
             \o SubFrom(a, b, i + 1, IF d < 0 THEN 1 ELSE 0)

\* a - b for a >= b
LimbsSub(a, b) == Trim(SubFrom(a, b, 1, 0))

\* a >= b on the digits from position i down, for equally long a and b
RECURSIVE GeFrom(_, _, _)
GeFrom(a, b, i) ==
    IF i = 0 THEN TRUE
    ELSE IF a[i] # b[i] THEN a[i] > b[i]
    ELSE GeFrom(a, b, i - 1)

LimbsGe(a, b) == IF Len(a) # Len(b) THEN Len(a) > Len(b) ELSE GeFrom(a, b, Len(a))

\* the digits of a * d from position i on, for one digit d
RECURSIVE ScaleFrom(_, _, _, _)
ScaleFrom(a, d, i, carry) ==
    IF i > Len(a) THEN (IF carry = 0 THEN <<>> ELSE <<carry>>)
    ELSE LET p == a[i] * d + carry
         IN  <<p % Base>> \o ScaleFrom(a, d, i + 1, p \div Base)

Scale(a, d) == Trim(ScaleFrom(a, d, 1, 0))

\* a * b: a times every digit of b from position i on
RECURSIVE MulFrom(_, _, _)
MulFrom(a, b, i) ==
    IF i > Len(b) THEN <<>>
    ELSE LimbsAdd(ZeroLimbs(i - 1) \o Scale(a, b[i]), MulFrom(a, b, i + 1))

LimbsMul(a, b) == MulFrom(a, b, 1)

\* a * 2^k
ShiftLeft(a, k) ==
    IF Len(a) = 0 THEN a
    ELSE ZeroLimbs(k \div LimbBits) \o Scale(a, Pow2(k % LimbBits))

\* the digits 1..i of floor(a / d) for a power of two d below Base, given the
\* remainder of the digits above
RECURSIVE DivideFrom(_, _, _, _)
DivideFrom(a, d, i, rem) ==
    IF i = 0 THEN <<>>
    ELSE LET v == rem * Base + a[i]
         IN  Append(DivideFrom(a, d, i - 1, v % d), v \div d)

\* floor(a / 2^k)
ShiftRight(a, k) ==
    LET upper == SubSeq(a, (k \div LimbBits) + 1, Len(a))
    IN  Trim(DivideFrom(upper, Pow2(k % LimbBits), Len(upper), 0))

\* a is not a multiple of 2^k
BitsBelow(a, k) ==
    \/ \E i \in 1..(k \div LimbBits) : LimbAt(a, i) # 0
    \/ LimbAt(a, (k \div LimbBits) + 1) % Pow2(k % LimbBits) # 0

RECURSIVE BitLength(_)
BitLength(n) == IF n = 0 THEN 0 ELSE 1 + BitLength(n \div 2)

\* number of bits of a
LimbsBits(a) ==
    IF Len(a) = 0 THEN 0 ELSE LimbBits * (Len(a) - 1) + BitLength(a[Len(a)])

IsOdd(a) == LimbAt(a, 1) % 2 = 1

FloatZero == [m |-> <<>>, e |-> 0]

\* a mantissa that rounding up has carried to MantissaBits + 1 bits is halved
Renormalize(r, e) ==
    IF LimbsBits(r) > MantissaBits THEN [m |-> ShiftRight(r, 1), e |-> e + 1]
    ELSE [m |-> r, e |-> e]

\* round to nearest, ties to even: up when the first dropped bit is set and
\* either bits below it are set or the kept mantissa is odd
RoundKept(kept, e, half, below) ==
    Renormalize(IF half /\ (below \/ IsOdd(kept)) THEN LimbsAdd(kept, <<1>>) ELSE kept, e)

\* withHalf is the kept mantissa followed by the first dropped bit
RoundDropped(withHalf, e, below) ==
    RoundKept(ShiftRight(withHalf, 1), e, IsOdd(withHalf), below)

RoundBits(n, e, inexact, bits) ==
    IF bits = 0 THEN FloatZero
    ELSE IF bits <= MantissaBits
    THEN [m |-> ShiftLeft(n, MantissaBits - bits), e |-> e - (MantissaBits - bits)]
    ELSE RoundDropped(ShiftRight(n, bits - MantissaBits - 1), e + (bits - MantissaBits),
                      inexact \/ BitsBelow(n, bits - MantissaBits - 1))

\* the float nearest to n * 2^e (ties to even), where inexact tells that bits
\* below those of n were already dropped
RoundFloat(n, e, inexact) == RoundBits(n, e, inexact, LimbsBits(n))

\* float(n) of a natural number
FloatOfNat(n) == RoundFloat(Limbs(n), 0, FALSE)

\* x * y
FloatMul(x, y) ==
    IF Len(x.m) = 0 \/ Len(y.m) = 0 THEN FloatZero
    ELSE RoundFloat(LimbsMul(x.m, y.m), x.e + y.e, FALSE)

\* x + y
FloatAdd(x, y) ==
    IF Len(x.m) = 0 THEN y
    ELSE IF Len(y.m) = 0 THEN x
    ELSE LET e == IF x.e < y.e THEN x.e ELSE y.e
         IN  RoundFloat(LimbsAdd(ShiftLeft(x.m, x.e - e), ShiftLeft(y.m, y.e - e)),
                        e, FALSE)

\* the divisor is subtracted from the remainder when it fits
SubtractIfGe(rem, quot, steps, b) ==
    IF LimbsGe(rem, b)
    THEN [rem |-> LimbsSub(rem, b), quot |-> LimbsAdd(quot, <<1>>), steps |-> steps]
    ELSE [rem |-> rem, quot |-> quot, steps |-> steps]

\* one more bit of the quotient of a long division by b
DivideStep(st, b) == SubtractIfGe(Scale(st.rem, 2), Scale(st.quot, 2), st.steps + 1, b)

\* the quotient to MantissaBits + 3 bits
RECURSIVE DivideLoop(_, _)
DivideLoop(st, b) ==
    IF LimbsBits(st.quot) >= MantissaBits + 3 THEN st
    ELSE DivideLoop(DivideStep(st, b), b)

\* the quotient st of the mantissas as a float
QuotientFloat(st, e) == RoundFloat(st.quot, e - st.steps, Len(st.rem) > 0)

\* x / y for y > 0
FloatDiv(x, y) ==
    IF Len(x.m) = 0 THEN FloatZero
    ELSE QuotientFloat(DivideLoop(SubtractIfGe(x.m, <<>>, 0, y.m), y.m), x.e - y.e)

\* x > y
FloatGt(x, y) ==
    IF Len(x.m) = 0 THEN FALSE
    ELSE IF Len(y.m) = 0 THEN TRUE
    ELSE IF x.e # y.e THEN x.e > y.e
    ELSE x.m # y.m /\ LimbsGe(x.m, y.m)

\* the float nearest to a non-negative rational: a decimal literal such as 0.4,
\* or a value computed in one correctly rounded division
FloatOfRat(r) ==
    IF r[2] = 1 THEN FloatOfNat(r[1]) ELSE FloatDiv(FloatOfNat(r[1]), FloatOfNat(r[2]))

-----------------------------------------------------------------------------
(* calculate_overall_score on Python values, in float arithmetic *)

\* a float value, given by the rational it was computed from
PyNum(r) == [num |-> r]
IsNum(v) == DOMAIN v = {"num"}

\* the order of "for component, weight in weights.items()"
OverallOrder ==
    << "skills_match", "experience_match", "education_match", "certification_match" >>

\* the float literals 0.4, 0.3, 0.2, 0.1 of the weights dict
FloatWeights == [c \in OverallComponents |-> FloatOfRat(OverallWeights[c])]

\* scores[component], None when the dict has no such key
EntryOf(scores, c) == Get(scores, c, NoneVal)

\* "component in scores and 'score' in scores[component]"
EntryHasScore(scores, c) ==
    /\ Get(scores, c, Absent) # Absent
    /\ Get(EntryOf(scores, c), "score", Absent) # Absent

\* the body of calculate_overall_score raises: scores is not a dict, an entry
\* is not a dict, a score is not a number (str * float), or the summary reads
\* the missing 'score' of an entry of the first three components
OverallRaises(scores) ==
    \/ ~IsDict(scores)
    \/ \E c \in OverallComponents :
          /\ Get(scores, c, Absent) # Absent
          /\ \/ ~IsDict(EntryOf(scores, c))
             \/ /\ EntryHasScore(scores, c)
                /\ ~IsNum(Get(EntryOf(scores, c), "score", Absent))
             \/ /\ ~EntryHasScore(scores, c)
                /\ c # "certification_match"

\* weighted_sum and used_weights after the components from position i on
RECURSIVE WeightedFrom(_, _, _, _)
WeightedFrom(scores, i, weighted_sum, used_weights) ==
    IF i > Len(OverallOrder) THEN <<weighted_sum, used_weights>>
    ELSE LET c == OverallOrder[i]
         IN  IF EntryHasScore(scores, c)
             THEN WeightedFrom(scores, i + 1,
                      FloatAdd(weighted_sum,
                               FloatMul(FloatOfRat(Get(EntryOf(scores, c), "score", Absent).num),
                                        FloatWeights[c])),
                      FloatAdd(used_weights, FloatWeights[c]))
             ELSE WeightedFrom(scores, i + 1, weighted_sum, used_weights)

\* overall_score: weighted_sum / used_weights, 0 when no weight was used
OverallFloat(scores) ==
    LET sums == WeightedFrom(scores, 1, FloatZero, FloatZero)
    IN  IF FloatGt(sums[2], FloatZero) THEN FloatDiv(sums[1], sums[2]) ELSE FloatZero

\* calculate_overall_score(scores), with the try/except around its body
OverallScoreOf(scores) ==
    TryExcept(OverallRaises(scores), [score |-> OverallFloat(scores)],
              [score |-> FloatZero])

\* scores dicts passed to a direct call: every component at 100, at 50, a score
\* that is a str, an entry without 'score', an entry that is None, an entry
\* without 'score' beside one with a score, and None
ScoresValues ==
    LET entry(v) == PyDict([score |-> v])
        all(v) == PyDict([skills_match |-> entry(v), experience_match |-> entry(v),
                          education_match |-> entry(v), certification_match |-> entry(v)])
    IN  { all(PyNum(Hundred)), all(PyNum(FromInt(50))), all(PyStr("high")), all(Absent),
          PyDict([skills_match |-> entry(PyNum(Hundred)), experience_match |-> Absent,
                  education_match |-> Absent, certification_match |-> Absent]),
          PyDict([skills_match |-> NoneVal, experience_match |-> Absent,
                  education_match |-> Absent, certification_match |-> Absent]),
          PyDict([skills_match |-> entry(Absent),
                  experience_match |-> entry(PyNum(FromInt(80))),
                  education_match |-> Absent, certification_match |-> Absent]),
          PyDict([skills_match |-> Absent,
                  experience_match |-> entry(PyNum(FromInt(80))),
                  education_match |-> Absent, certification_match |-> entry(Absent)]),
          NoneVal }

OverallInputs == { [op |-> "overall", scores |-> s] : s \in ScoresValues }

\* MatchScorer.calculate_overall_score(scores)
CalculateOverallScoreOf ==
    /\ scorer_in.op = "overall"
    /\ scorer_out = NoneVal
    /\ LET r == OverallScoreOf(scorer_in.scores)
       IN  scorer_out' = [status |-> r.status, score |-> r.value.score]
    /\ UNCHANGED <<rank_vars, scorer_in>>

-----------------------------------------------------------------------------
(* calculate_education_score on Python values *)

\* the body raises: job_education.lower() on a value that is not a str, the
\* loop over a value that is not a list, degree.lower() on a degree that is
\* not a str
EducationRaises(job_education, candidate_education) ==
    /\ ~Falsy(job_education)
    /\ \/ ~IsStr(job_education)
       \/ /\ Lower(job_education.str) # "not specified"
          /\ \/ ~IsList(candidate_education)
             \/ \E i \in 1..Len(candidate_education.list) :
                   /\ IsDict(candidate_education.list[i])
                   /\ ~IsStr(Get(candidate_education.list[i], "degree", PyStr("")))

\* degree of an entry: edu.get('degree', '') of a dict, str(edu) otherwise
DegreeOf(edu) ==
    IF IsDict(edu) THEN Get(edu, "degree", PyStr("")).str
    ELSE IF IsStr(edu) THEN edu.str
    ELSE IF IsInt(edu) THEN IntText(edu.int)
    ELSE "None"

\* calculate_education_score(job_education, candidate_education), with the
\* try/except around its body
EducationScoreOf(job_education, candidate_education) ==
    TryExcept(EducationRaises(job_education, candidate_education),
              [score |-> IF Falsy(job_education) THEN Hundred
                         ELSE calculate_education_score(
                                  job_education.str,
                                  [i \in 1..Len(candidate_education.list) |->
                                      [degree |-> DegreeOf(candidate_education.list[i])]])],
              [score |-> Zero])

-----------------------------------------------------------------------------
(* calculate_match_scores *)

\* the default {} of .get
EmptyDict == PyDict([unused |-> Absent])

\* int(v) raises: TypeError for None, ValueError for a str that is not a number
IntRaises(v) ==
    ~ \/ IsInt(v)
      \/ /\ IsStr(v) /\ Len(v.str) > 0
         /\ \A i \in 1..Len(v.str) : IsDigit(CharAt(v.str, i))

\* int(v)
IntOf(v) == IF IsInt(v) THEN v.int ELSE DigitsValue(v.str, 1, Len(v.str))

\* the statements of calculate_match_scores outside the scorers raise
MatchRaises(job_data, candidate_data) ==
    \/ GetRaises(job_data)
    \/ GetRaises(candidate_data)
    \/ IntRaises(Get(job_data, "required_experience", PyInt(0)))

\* "if isinstance(job_skills, str): job_skills = {...empty lists...}"
RequiredSkillsOf(job_data) ==
    LET job_skills == Get(job_data, "required_skills", EmptyDict)
    IN  IF IsStr(job_skills)
        THEN PyDict([technical_skills |-> StrList(<<>>), soft_skills |-> StrList(<<>>)])
        ELSE job_skills

\* "scores['overall_match'] = overall": the four results with the overall one
WithOverall(skills, experience, education, certification, overall) ==
    [skills_match |-> [status |-> skills.status, score |-> skills.value.score],
     experience_match |-> [status |-> experience.status, score |-> experience.value.score],
     education_match |-> [status |-> education.status, score |-> education.value.score],
     certification_match |-> [status |-> certification.status,
                              score |-> certification.value.score],
     overall_match |-> [status |-> overall.status, score |-> overall.value.score]]

\* the scores dict compiled from the results of the four scorers
CompiledScores(skills, experience, education, certification) ==
    WithOverall(skills, experience, education, certification,
        OverallScoreOf(
            PyDict([skills_match |-> PyDict([score |-> PyNum(skills.value.score)]),
                    experience_match |-> PyDict([score |-> PyNum(experience.value.score)]),
                    education_match |-> PyDict([score |-> PyNum(education.value.score)]),
                    certification_match |->
                        PyDict([score |-> PyNum(certification.value.score)])])))

\* the four scorers on the fields of the two records, with their defaults
MatchScores(job_data, candidate_data) ==
    CompiledScores(
        calculate_skills_score(RequiredSkillsOf(job_data),
                               Get(candidate_data, "skills", EmptyDict)),
        calculate_experience_score(
            PyInt(IntOf(Get(job_data, "required_experience", PyInt(0)))),
            Get(candidate_data, "experience", PyList(<<>>))),
        EducationScoreOf(Get(job_data, "required_education", PyStr("")),
                         Get(candidate_data, "education", PyList(<<>>))),
        calculate_certification_score(Get(job_data, "certifications", PyList(<<>>)),
                                      Get(candidate_data, "certifications", PyList(<<>>))))

\* the dict of the except branch: every score 0
MatchErrorScores ==
    [skills_match |-> [status |-> "returned", score |-> Zero],
     experience_match |-> [status |-> "returned", score |-> Zero],
     education_match |-> [status |-> "returned", score |-> Zero],
     certification_match |-> [status |-> "returned", score |-> Zero],
     overall_match |-> [status |-> "returned", score |-> FloatZero]]

\* calculate_match_scores(job_data, candidate_data)
calculate_match_scores(job_data, candidate_data) ==
    TryExcept(MatchRaises(job_data, candidate_data),
              MatchScores(job_data, candidate_data), MatchErrorScores)

\* job records: the sample data of the module, a job that requires nothing,
\* and a job with one requirement of each kind
JobDataValues ==
    { PyDict([required_skills |->
                  PyDict([technical_skills |->
                              StrList(<<"Python", "Django", "Flask", "SQL", "Git">>),
                          soft_skills |->
                              StrList(<<"Communication", "Teamwork", "Problem-solving">>)]),
              required_experience |-> PyInt(5),
              required_education |-> PyStr("Bachelor's degree in Computer Science"),
              certifications |-> StrList(<<"AWS Certified Developer">>)]),
      PyDict([required_skills |-> Absent, required_experience |-> Absent,
              required_education |-> Absent, certifications |-> Absent]),
      PyDict([required_skills |->
                  PyDict([technical_skills |-> StrList(<<"Python", "React">>),
                          soft_skills |-> StrList(<<>>)]),
              required_experience |-> PyStr("2"),
              required_education |-> PyStr("Master's degree"),
              certifications |-> StrList(<<"PMP", "AWS Certified Developer">>)]) }

\* candidate records: the sample data of the module, a weaker candidate, and
\* a candidate without any field
CandidateDataValues ==
    { PyDict([skills |->
                  PyDict([technical |-> StrList(<<"Python", "JavaScript", "Django", "Flask",
                                                  "React", "SQL", "Git">>),
                          soft |-> StrList(<<"Communication", "Teamwork", "Leadership">>)]),
              experience |-> PyList(<<PyDict([duration |-> PyStr("3 years")]),
                                      PyDict([duration |-> PyStr("2 years")])>>),
              education |->
                  PyList(<<PyDict([degree |-> PyStr("Master of Science in Computer Science")]),
                           PyDict([degree |->
                                       PyStr("Bachelor of Science in Computer Engineering")])>>),
              certifications |->
                  StrList(<<"AWS Certified Developer", "Certified Scrum Master">>)]),
      PyDict([skills |-> PyDict([technical |-> StrList(<<"ReactJS", "python">>),
                                 soft |-> StrList(<<>>)]),
              experience |-> PyList(<<PyDict([duration |-> PyStr("1 year")])>>),
              education |-> PyList(<<PyDict([degree |-> PyStr("Bachelor's degree")])>>),
              certifications |-> StrList(<<"aws">>)]),
      PyDict([skills |-> Absent, experience |-> Absent, education |-> Absent,
              certifications |-> Absent]) }

MatchInputs ==
    { [op |-> "match", job_data |-> j, candidate_data |-> c] :
        j \in JobDataValues \cup {NoneVal}, c \in CandidateDataValues \cup {NoneVal} }

\* values of the wrong type for one field of a record, with the component the
\* field belongs to
MalformedFields ==
    { [record |-> "job_data", key |-> "required_skills",
       value |-> StrList(<<"Python">>), component |-> "skills_match"],
      [record |-> "job_data", key |-> "required_experience",
       value |-> PyStr("five"), component |-> "experience_match"],
      [record |-> "job_data", key |-> "required_experience",
       value |-> NoneVal, component |-> "experience_match"],
      [record |-> "job_data", key |-> "required_education",
       value |-> PyInt(5), component |-> "education_match"],
      [record |-> "job_data", key |-> "certifications",
       value |-> PyList(<<PyInt(5)>>), component |-> "certification_match"],
      [record |-> "candidate_data", key |-> "skills",
       value |-> NoneVal, component |-> "skills_match"],
      [record |-> "candidate_data", key |-> "skills",
       value |-> PyDict([technical |-> StrList(<<"Python">>),
                         soft |-> PyList(<<PyInt(5)>>)]),
       component |-> "skills_match"],
      [record |-> "candidate_data", key |-> "experience",
       value |-> PyList(<<PyStr("intern")>>), component |-> "experience_match"],
      [record |-> "candidate_data", key |-> "education",
       value |-> PyList(<<PyDict([degree |-> PyInt(5)])>>),
       component |-> "education_match"],
      [record |-> "candidate_data", key |-> "certifications",
       value |-> PyInt(7), component |-> "certification_match"] }

\* a record with one field replaced
WithField(data, key, value) == PyDict([data.dict EXCEPT ![key] = value])

MatchOut(r, previous, field) ==
    [status |-> r.status, scores |-> r.value, previous |-> previous, field |-> field]

\* calculate_match_scores(job_data, candidate_data)
CalculateMatchScores ==
    /\ scorer_in.op = "match"
    /\ scorer_out = NoneVal
    /\ scorer_out' = MatchOut(calculate_match_scores(scorer_in.job_data,
                                                     scorer_in.candidate_data),
                              NoneVal, NoneVal)
    /\ UNCHANGED <<rank_vars, scorer_in>>

\* one field of a scored pair of records is replaced by a value of the wrong
\* type and the pair is scored again
MalformFieldAndRescore ==
    /\ scorer_in.op = "match"
    /\ scorer_out # NoneVal
    /\ scorer_out.previous = NoneVal
    /\ IsDict(scorer_in.job_data) /\ IsDict(scorer_in.candidate_data)
    /\ \E f \in MalformedFields :
          LET j == IF f.record = "job_data"
                   THEN WithField(scorer_in.job_data, f.key, f.value)
                   ELSE scorer_in.job_data
              c == IF f.record = "candidate_data"
                   THEN WithField(scorer_in.candidate_data, f.key, f.value)
                   ELSE scorer_in.candidate_data
          IN  /\ scorer_in' = [scorer_in EXCEPT !.job_data = j, !.candidate_data = c]
              /\ scorer_out' = MatchOut(calculate_match_scores(j, c), scorer_out.scores, f)
    /\ UNCHANGED rank_vars

-----------------------------------------------------------------------------
(* The scoring specification: one MatchScorer call on drawn arguments *)

ScoreInit ==
    /\ db_job = NoneVal
    /\ db_matches = <<>>
    /\ ctor_weights = DefaultWeights
    /\ base_weights = ctor_weights
    /\ updated_weights = ctor_weights
    /\ use_dynamic_weights = TRUE
    /\ job = NoneVal
    /\ result = NoneVal
    /\ scorer_in \in EducationInputs \cup SkillsInputs \cup CertificationInputs
                    \cup ExperienceInputs \cup OverallInputs \cup MatchInputs
    /\ scorer_out = NoneVal

ScoreNext ==
    \/ CalculateEducationScore
    \/ CalculateSkillsScore
    \/ AddSkillAndRescore
    \/ CalculateCertificationScore
    \/ CalculateExperienceScore
    \/ CalculateOverallScoreOf
    \/ CalculateMatchScores
    \/ MalformFieldAndRescore

ScoreSpec == ScoreInit /\ [][ScoreNext]_vars

-----------------------------------------------------------------------------
(* Properties *)

ReturnedBy(op) == result # NoneVal /\ result.op = op /\ result.status = "returned"
CalledOp(op) == result # NoneVal /\ result.op = op

MinOf4(a, b, c, d) == Minimum({a, b, c, d})
MaxOf4(a, b, c, d) == Maximum({a, b, c, d})

\* (skills, experience, education) of a is lexicographically >= that of b
TieKeyGe(a, b) ==
    \/ a.skills_score > b.skills_score
    \/ /\ a.skills_score = b.skills_score
       /\ \/ a.experience_score > b.experience_score
          \/ /\ a.experience_score = b.experience_score
             /\ a.education_score >= b.education_score

\* C1: in the list returned by rank_candidates, neighbours with equal
\* overall_score are ordered by skills_score, then experience_score, then
\* education_score, all descending, whatever order the rows were read in.
C1_TieBreakOrder ==
    ReturnedBy("rank_candidates") =>
        LET c == result.value.candidates
        IN  \A i \in 1..(Len(c) - 1) :
                c[i].overall_score = c[i + 1].overall_score => TieKeyGe(c[i], c[i + 1])

\* C2: rank_candidates returns exactly one entry per match record of the job,
\* carrying that record's component scores, in non-increasing overall_score order.
C2_OneEntryPerMatchSorted ==
    ReturnedBy("rank_candidates") =>
        LET c == result.value.candidates
        IN  /\ Len(c) = Len(db_matches)
            /\ \A k \in 1..Len(db_matches) :
                   Cardinality({i \in 1..Len(c) :
                       /\ c[i].match_id = db_matches[k].match_id
                       /\ c[i].skills_score = db_matches[k].skills_score
                       /\ c[i].experience_score = db_matches[k].experience_score
                       /\ c[i].education_score = db_matches[k].education_score
                       /\ c[i].certifications_score = db_matches[k].certifications_score}) = 1
            /\ \A i \in 1..(Len(c) - 1) : RGe(c[i].overall_score, c[i + 1].overall_score)

\* a ranking in which the sort moved a later row in front of an earlier one
C2_Witness ==
    /\ ReturnedBy("rank_candidates")
    /\ Len(result.value.candidates) >= 2
    /\ result.value.candidates[1].match_id # 1
    /\ RGt(result.value.candidates[1].overall_score,
           result.value.candidates[2].overall_score)

\* the tier an education text names: 0 high school, 1 associate, 2 bachelor,
\* 3 master, 4 doctorate
EducationTier(text) ==
    CASE text = "High school" -> 0
      [] text = "High school diploma" -> 0
      [] text = "Associate degree" -> 1
      [] text = "Bachelor's degree in Computer Science" -> 2
      [] text = "Bachelors" -> 2
      [] text = "Bachelor's degree" -> 2
      [] text = "Bachelor of Science in Computer Engineering" -> 2
      [] text = "Master's degree" -> 3
      [] text = "Master of Science in Computer Science" -> 3
      [] text = "MBA" -> 3
      [] text = "PhD" -> 4
      [] OTHER -> 0

HighestTier(entries) ==
    Maximum({0} \cup {EducationTier(entries[k].degree) : k \in 1..Len(entries)})

\* C3: calculate_education_score returns 100 whenever the candidate's highest
\* attained tier is at or above the required tier (Scenario C included: a
\* Master of Science and a Bachelor of Science against a required Bachelor's degree).
C3_TierMetScores100 ==
    (scorer_out # NoneVal /\ scorer_in.op = "education") =>
        (HighestTier(scorer_in.candidate_education) >= EducationTier(scorer_in.job_education)
            => scorer_out.score = Hundred)

\* C4: for a job with more than 5 required skills and required experience
\* above 5, with the default base weights, the dynamic weights sum to 1 and the
\* ratios skills/education, skills/certifications, experience/education and
\* experience/certifications are all strictly greater than in the base weights.
C4_BothWeightsIncreased ==
    ( /\ ReturnedBy("_calculate_dynamic_weights")
      /\ ctor_weights = DefaultWeights
      /\ RequiredSkillCount(job) > 5
      /\ job.required_experience > 5 ) =>
        LET w == result.value
            b == ctor_weights
        IN  /\ WeightSum(w) = One
            /\ RGt(RMul(w.skills, b.education), RMul(b.skills, w.education))
            /\ RGt(RMul(w.skills, b.certifications), RMul(b.skills, w.certifications))
            /\ RGt(RMul(w.experience, b.education), RMul(b.experience, w.education))
            /\ RGt(RMul(w.experience, b.certifications), RMul(b.experience, w.certifications))

PositiveWeights(w) ==
    /\ RGt(w.skills, Zero) /\ RGt(w.experience, Zero)
    /\ RGt(w.education, Zero) /\ RGt(w.certifications, Zero)

NonNegativeWeights(w) ==
    /\ RGe(w.skills, Zero) /\ RGe(w.experience, Zero)
    /\ RGe(w.education, Zero) /\ RGe(w.certifications, Zero)

\* C5: every WeightSet returned by _calculate_dynamic_weights sums to 1,
\* whichever rules fire, for every base weights with positive components.
C5_DynamicWeightsSumToOne ==
    (ReturnedBy("_calculate_dynamic_weights") /\ PositiveWeights(ctor_weights)) =>
        WeightSum(result.value) = One

Between(x, lo, hi) == RGe(x, FromInt(lo)) /\ RLe(x, FromInt(hi))

EntryBetweenMinMax(c) ==
    Between(c.overall_score,
            MinOf4(c.skills_score, c.experience_score, c.education_score,
                   c.certifications_score),
            MaxOf4(c.skills_score, c.experience_score, c.education_score,
                   c.certifications_score))

PresentScores(scores) ==
    {scores[c].score : c \in {k \in DOMAIN scores : "score" \in DOMAIN scores[k]}}

OverallBetweenMinMax ==
    (ReturnedBy("calculate_overall_score") /\ PresentScores(result.args) # {}) =>
        Between(result.value.score, Minimum(PresentScores(result.args)),
                Maximum(PresentScores(result.args)))

EntryWeightedSum(c, w) ==
    RAdd(RAdd(RAdd(RMul(FromInt(c.skills_score), w.skills),
                   RMul(FromInt(c.experience_score), w.experience)),
              RMul(FromInt(c.education_score), w.education)),
         RMul(FromInt(c.certifications_score), w.certifications))

\* C7: weights that do not sum to 1 are renormalized before use: every
\* overall_score produced by rank_candidates equals the sum of component score
\* times weight divided by the sum of the weights, in static and in dynamic mode.
C7_WeightsRenormalized ==
    ReturnedBy("rank_candidates") =>
        LET w == WeightsInUse(use_dynamic_weights, updated_weights, base_weights)
        IN  WeightSum(w) # Zero =>
                \A i \in 1..Len(result.value.candidates) :
                    result.value.candidates[i].overall_score =
                        RDiv(EntryWeightedSum(result.value.candidates[i], w), WeightSum(w))

\* C8: after any sequence of _calculate_dynamic_weights, rank_candidates,
\* get_top_candidates and generate_shortlist calls, base_weights still holds
\* exactly the four weights given to the constructor.
C8_BaseWeightsUnchanged == base_weights = ctor_weights

\* a shortlist produced under dynamic weights that differ from the base weights
C8_Witness ==
    /\ ReturnedBy("generate_shortlist")
    /\ use_dynamic_weights
    /\ updated_weights # ctor_weights
    /\ result.value.weights_used = updated_weights

\* positions of the ranked candidates that reach the threshold
Qualifying(ranked, threshold) ==
    {j \in 1..Len(ranked) : RGe(ranked[j].overall_score, threshold)}

\* C9: for limit >= 0, get_top_candidates(limit, threshold) returns, in rank
\* order, the first min(limit, k) of the k ranked candidates whose
\* overall_score >= threshold.
C9_TopCandidates ==
    ReturnedBy("get_top_candidates") =>
        LET limit == result.args[1]
            threshold == result.args[2]
            ranked == result.value.ranked
            top == result.value.top
            q == Qualifying(ranked, threshold)
            k == Cardinality(q)
        IN  /\ Len(top) = IF limit < k THEN limit ELSE k
            /\ \A i \in 1..Len(top) : RGe(top[i].overall_score, threshold)
            /\ \A i \in 1..Len(top) :
                   \E j \in q : /\ Cardinality({x \in q : x <= j}) = i
                                /\ top[i] = ranked[j]

\* a call whose threshold cut the tail of the ranking and kept its head
C9_Witness ==
    /\ ReturnedBy("get_top_candidates")
    /\ Len(result.value.top) >= 1
    /\ result.value.top[1].match_id # 1
    /\ \E j \in 1..Len(result.value.ranked) :
           RLt(result.value.ranked[j].overall_score, result.args[2])

\* C10: for a job that exists but has no match records, rank_candidates and
\* get_top_candidates return an empty candidate list without raising.
C10_EmptyPoolReturnsEmpty ==
    (db_job # NoneVal /\ db_matches = <<>>) =>
        /\ CalledOp("rank_candidates") =>
               /\ result.status = "returned"
               /\ result.value.candidates = <<>>
        /\ CalledOp("get_top_candidates") =>
               /\ result.status = "returned"
               /\ result.value.top = <<>>

\* the other three weights of w scaled by factor, as each rule is described
ScaledBy(w, factor, key) ==
    [k \in Components |-> IF k = key THEN w[k] ELSE RMul(w[k], factor)]

\* C19: Rule 1 of _calculate_dynamic_weights fires exactly when the total
\* number of required skills (technical plus soft) exceeds 5; when it fires the
\* skills weight grows by 0.1 and each other weight is multiplied by
\* (1 - new skills) / (1 - old skills).
C19_Rule1FiresOnSkillCount ==
    ReturnedBy("_calculate_dynamic_weights") =>
        LET s == result.steps
            b == ctor_weights
            grown == RAdd(b.skills, WeightStep)
            factor == RDiv(RSub(One, grown), RSub(One, b.skills))
        IN  /\ s.rule1 <=> (RequiredSkillCount(job) > 5)
            /\ s.rule1 =>
                  /\ s.after_rule1.skills = grown
                  /\ \A k \in Components \ {"skills"} :
                        s.after_rule1[k] = ScaledBy(b, factor, "skills")[k]

SkillsCalled == scorer_in.op = "skills" /\ scorer_out # NoneVal

\* C11: adding to the candidate's possessed skill list a skill equal to one of
\* the required skills never decreases the score of calculate_skills_score.
C11_AddedRequiredSkillNeverDecreases ==
    (SkillsCalled /\ scorer_out.previous # NoneVal) =>
        RGe(scorer_out.score, scorer_out.previous)

\* a required skill that was only similar, or missing, was added and the score rose
C11_Witness ==
    /\ SkillsCalled
    /\ scorer_out.previous # NoneVal
    /\ RGt(scorer_out.previous, Zero)
    /\ RGt(scorer_out.score, scorer_out.previous)

\* number of skills in a required list of the job of the call
RequiredCount(key) == Len(Get(scorer_in.job_skills, key, PyList(<<>>)).list)

ScenarioASkills ==
    /\ scorer_in.job_skills =
          PyDict([technical_skills |-> StrList(<<"Python", "Django", "Flask", "SQL", "Git">>),
                  soft_skills |-> StrList(<<"Communication", "Teamwork", "Problem-solving">>)])
    /\ scorer_in.candidate_skills =
          PyDict([technical |-> StrList(<<"Python", "JavaScript", "Django", "Flask",
                                          "React", "SQL", "Git">>),
                  soft |-> StrList(<<"Communication", "Teamwork", "Leadership">>)])

\* C13: the skills score is 0.7 x technical + 0.3 x soft when both required
\* lists are non-empty and the single non-empty category's score otherwise, so
\* the candidate's soft skills never change the score of a job that requires
\* only technical skills; Scenario A (5 of 5 technical, 2 of 3 soft) scores 90.
\* Stated for lists of strings, the shape of the data model.
C13_SkillsScoreCombination ==
    (SkillsCalled /\ scorer_out.tech_score # NoneVal) =>
        LET t == RequiredCount("technical_skills")
            s == RequiredCount("soft_skills")
        IN  /\ (t > 0 /\ s > 0) =>
                  scorer_out.score = RAdd(RMul(Rat(7, 10), scorer_out.tech_score),
                                          RMul(Rat(3, 10), scorer_out.soft_score))
            /\ (t > 0 /\ s = 0) => scorer_out.score = scorer_out.tech_score
            /\ (t = 0 /\ s > 0) => scorer_out.score = scorer_out.soft_score
            /\ (t > 0 /\ s = 0 /\ scorer_out.previous # NoneVal
                   /\ scorer_out.added.key = "soft") =>
                  scorer_out.score = scorer_out.previous
            /\ (ScenarioASkills /\ scorer_out.previous = NoneVal) =>
                  scorer_out.score = FromInt(90)

\* Scenario A has been scored: both categories required, soft partly matched
C13_Witness ==
    /\ SkillsCalled
    /\ ScenarioASkills
    /\ scorer_out.previous = NoneVal
    /\ scorer_out.tech_score = Hundred
    /\ scorer_out.soft_score = Rat(200, 3)
    /\ scorer_out.score = FromInt(90)

\* the job of the skills call requires no skill: both lists empty or not given
NoSkillsRequired ==
    /\ IsDict(scorer_in.job_skills)
    /\ Falsy(Get(scorer_in.job_skills, "technical_skills", PyList(<<>>)))
    /\ Falsy(Get(scorer_in.job_skills, "soft_skills", PyList(<<>>)))

\* C12: calculate_skills_score returns 100 whenever both required lists are
\* empty, and calculate_certification_score returns 100 whenever the required
\* list is empty, for every candidate value: empty, missing or malformed
\* candidate lists (a list holding a non-string element) included.
C12_NoRequirementScores100 ==
    /\ (SkillsCalled /\ NoSkillsRequired) => scorer_out.score = Hundred
    /\ (scorer_in.op = "certification" /\ scorer_out # NoneVal
           /\ Falsy(scorer_in.job_certifications)) => scorer_out.score = Hundred

\* the experience call had a positive requirement and a list of entries
ExperienceScored ==
    /\ scorer_in.op = "experience" /\ scorer_out # NoneVal
    /\ IsInt(scorer_in.job_experience) /\ scorer_in.job_experience.int > 0
    /\ IsList(scorer_in.candidate_experience)
    /\ \A i \in 1..Len(scorer_in.candidate_experience.list) :
          IsDict(scorer_in.candidate_experience.list[i])

\* the duration of an entry as the specification defines it: the first number
\* of its duration text, 1.0 when there is no number
StatedDuration(exp) ==
    IF Get(exp, "duration", Absent) # Absent
       /\ HasNumber(DurationText(Get(exp, "duration", Absent)))
    THEN FirstNumber(DurationText(Get(exp, "duration", Absent)))
    ELSE One

RECURSIVE StatedTotal(_)
StatedTotal(entries) ==
    IF Len(entries) = 0 THEN Zero
    ELSE RAdd(StatedDuration(Head(entries)), StatedTotal(Tail(entries)))

\* C14: for required_years > 0, calculate_experience_score returns 100 when the
\* sum of the durations of all experience entries is at least required_years,
\* and otherwise sum / required_years * 100, a value in [0, 100); an empty
\* list scores 0 (Scenario B: 3 and 2 years against 5 required give 100).
C14_ExperienceScoreFromTotal ==
    ExperienceScored =>
        LET required == FromInt(scorer_in.job_experience.int)
            total == StatedTotal(scorer_in.candidate_experience.list)
        IN  /\ RGe(total, required) => scorer_out.score = Hundred
            /\ RLt(total, required) =>
                  /\ scorer_out.score = RMul(RDiv(total, required), Hundred)
                  /\ RGe(scorer_out.score, Zero) /\ RLt(scorer_out.score, Hundred)
            /\ Len(scorer_in.candidate_experience.list) = 0 => scorer_out.score = Zero

MatchEntries ==
    OverallComponents \cup {"overall_match"}

MatchCalled == scorer_in.op = "match" /\ scorer_out # NoneVal

\* a score computed in rational arithmetic, a score computed in float arithmetic
IsRatScore(v) == v[1] \in Int /\ v[2] > 0
IsFloatScore(v) == v.e \in Int /\ \A i \in 1..Len(v.m) : v.m[i] \in 0..(Base - 1)

\* C16: calculate_match_scores, the four component scorers and
\* calculate_overall_score never raise, whatever the shape of their input; each
\* returns a numeric score, and calculate_match_scores returns all five entries.
C16_NeverRaises ==
    /\ (scorer_out # NoneVal /\ scorer_in.op \in {"skills", "certification", "experience"})
          => scorer_out.status = "returned" /\ IsRatScore(scorer_out.score)
    /\ (scorer_out # NoneVal /\ scorer_in.op = "education") => IsRatScore(scorer_out.score)
    /\ (scorer_out # NoneVal /\ scorer_in.op = "overall")
          => scorer_out.status = "returned" /\ IsFloatScore(scorer_out.score)
    /\ MatchCalled =>
          /\ scorer_out.status = "returned"
          /\ DOMAIN scorer_out.scores = MatchEntries
          /\ \A c \in OverallComponents :
                /\ scorer_out.scores[c].status = "returned"
                /\ IsRatScore(scorer_out.scores[c].score)
          /\ scorer_out.scores["overall_match"].status = "returned"
          /\ IsFloatScore(scorer_out.scores["overall_match"].score)

\* a call whose body raised has returned: calculate_match_scores on a record
\* that is None or has a required_experience int() rejects, and a scorer
\* inside it on a field of the wrong type
C16_Witness ==
    /\ MatchCalled
    /\ scorer_out.field # NoneVal
    /\ \/ MatchRaises(scorer_in.job_data, scorer_in.candidate_data)
       \/ EducationRaises(Get(scorer_in.job_data, "required_education", PyStr("")),
                          Get(scorer_in.candidate_data, "education", PyList(<<>>)))
    /\ scorer_out.status = "returned"
    /\ DOMAIN scorer_out.scores = MatchEntries

\* C17: in calculate_match_scores a malformed field that belongs to one
\* component resolves only that component's score, to 0 or 100; the other three
\* component scores are those of the call with the field well-formed.
C17_MalformedFieldIsolated ==
    (MatchCalled /\ scorer_out.field # NoneVal) =>
        /\ scorer_out.scores[scorer_out.field.component].score \in {Zero, Hundred}
        /\ \A c \in OverallComponents \ {scorer_out.field.component} :
              scorer_out.scores[c].score = scorer_out.previous[c].score

\* C18: every score of the four component scorers, and the overall score of
\* calculate_match_scores, is between 0 and 100 inclusive, on error paths too.
C18_ScoresWithin0And100 ==
    LET within(s) == RGe(s, Zero) /\ RLe(s, Hundred)
    IN  /\ (scorer_out # NoneVal
               /\ scorer_in.op \in {"skills", "certification", "experience", "education"})
              => within(scorer_out.score)
        /\ MatchCalled =>
              /\ \A c \in OverallComponents : within(scorer_out.scores[c].score)
              /\ ~FloatGt(scorer_out.scores["overall_match"].score, FloatOfNat(100))

\* C21: _calculate_dynamic_weights returns a WeightSet without raising for
\* every base weights the caller supplied, also when Rule 1 fires on a base
\* skills weight of 1.0 or Rule 2 fires on a base experience weight of 1.0.
C21_DynamicWeightsNeverRaise ==
    (CalledOp("_calculate_dynamic_weights") /\ job # NoneVal) =>
        /\ result.status = "returned"
        /\ DOMAIN result.value = Components

RankingOps == {"rank_candidates", "get_top_candidates", "generate_shortlist"}

RankingCall(r) == r # NoneVal /\ r.op \in RankingOps

\* C28: the dynamic weights do not compound: in dynamic mode a call of
\* rank_candidates, get_top_candidates or generate_shortlist that follows
\* another of these calls leaves updated_weights as that call left it, so after
\* any sequence of them updated_weights is what the first one made it.
C28_DynamicWeightsDoNotCompound ==
    [][ (use_dynamic_weights /\ RankingCall(result) /\ RankingCall(result'))
            => updated_weights' = updated_weights ]_vars

\* a ranking call ended in dynamic mode with both rules fired, so that the
\* weights differ from the base weights a further call starts from
C28_Witness ==
    /\ use_dynamic_weights
    /\ RankingCall(result) /\ result.status = "returned"
    /\ Rule1Fires(job) /\ Rule2Fires(job)
    /\ updated_weights # base_weights

\* C29: within one rank_candidates call every candidate's overall_score is the
\* weighted sum of its four component scores under one and the same WeightSet,
\* and that WeightSet is the weights_used the call reports, in static as well
\* as in dynamic mode.
C29_ScoredWithWeightsUsed ==
    ReturnedBy("rank_candidates") =>
        LET w == result.value.weights_used
            ranked == result.value.candidates
        IN  \A i \in 1..Len(ranked) :
                ranked[i].overall_score = WeightedScore(ranked[i], w)

\* C30: generate_shortlist for a job that exists but has no match records
\* returns an empty shortlist and raises nothing.
C30_EmptyPoolShortlist ==
    (CalledOp("generate_shortlist") /\ db_job # NoneVal /\ db_matches = <<>>) =>
        /\ result.status = "returned"
        /\ result.value.shortlist = <<>>

\* the tier of a 0-based index of education_levels: one row of the list per
\* tier (high school, associate, bachelor, master, doctorate)
TierOfLevel(i) ==
    IF i = 0 THEN 0 ELSE IF i <= 3 THEN 1 ELSE IF i <= 8 THEN 2
    ELSE IF i <= 14 THEN 3 ELSE 4

EducationCalled == scorer_in.op = "education" /\ scorer_out # NoneVal

\* C22: two education texts that contain different synonyms of one tier get
\* the same level, so a candidate whose highest degree contains a phrase of the
\* required tier scores 100.
C22_SynonymsShareLevel ==
    ( /\ EducationCalled
      /\ LevelsFound(scorer_in.job_education) # {} ) =>
        LET required == LevelOf(scorer_in.job_education)
            entries == scorer_in.candidate_education
            highest == HighestLevel(entries)
        IN  /\ \A k \in 1..Len(entries) :
                   ( /\ LevelsFound(entries[k].degree) # {}
                     /\ TierOfLevel(LevelOf(entries[k].degree)) = TierOfLevel(required) )
                       => LevelOf(entries[k].degree) = required
            /\ ( /\ \E k \in 1..Len(entries) : LevelsFound(entries[k].degree) # {}
                 /\ TierOfLevel(highest) = TierOfLevel(required) )
                   => scorer_out.score = Hundred

\* C23: when the required education is neither empty nor "not specified" and
\* resolves to level index 0, calculate_education_score divides nothing by zero
\* and returns 0, unless the candidate's highest level is 0 as well, and then
\* it returns 100.
C23_RequiredLevelZero ==
    ( /\ EducationCalled
      /\ scorer_in.job_education # ""
      /\ Lower(scorer_in.job_education) # "not specified"
      /\ LevelOf(scorer_in.job_education) = 0 ) =>
        scorer_out.score = IF HighestLevel(scorer_in.candidate_education) = 0
                           THEN Hundred ELSE Zero

\* C24: the duration calculate_experience_score adds for an entry is the first
\* number of its duration text; 1.0 is added only when the text holds no number
\* or the entry has no duration, so that "0 years" adds 0.
C24_DurationIsFirstNumber ==
    ExperienceScored =>
        LET entries == scorer_in.candidate_experience.list
            required == FromInt(scorer_in.job_experience.int)
        IN  /\ \A i \in 1..Len(entries) :
                   EntryDuration(entries[i]) = StatedDuration(entries[i])
            /\ ( /\ Len(entries) = 1
                 /\ RLt(StatedDuration(entries[1]), required) ) =>
                   scorer_out.score =
                       RMul(RDiv(StatedDuration(entries[1]), required), Hundred)

\* longest candidate list whose every order is tried
MaxPermuted == 4

\* the list in the order given by the permutation p of its positions
Reordered(list, p) == [i \in 1..Len(list) |-> list[p[i]]]

\* positions of the required list with an equal possessed skill, and those
\* without one but with a similar possessed skill
ExactPositions(required, cand) == {i \in 1..Len(required) : \E k \in 1..Len(cand) : cand[k] = required[i]}
SimilarPositions(required, cand) ==
    {i \in 1..Len(required) \ ExactPositions(required, cand) :
        \E k \in 1..Len(cand) : SimilarSkill(required[i], cand[k])}

\* what C25 states of one call of _calculate_skill_set_match that returned score
SkillSetMatchAsStated(required, cand, score) ==
    /\ \A i \in 1..Len(required) :
          /\ Cardinality({c \in {"matched", "similar", "missing"} :
                             SkillClass(required[i], cand) = c}) = 1
          /\ (i \in ExactPositions(required, cand)) <=> (SkillClass(required[i], cand) = "matched")
          /\ (i \in SimilarPositions(required, cand)) <=> (SkillClass(required[i], cand) = "similar")
    /\ ClassCount(required, cand, "matched") + ClassCount(required, cand, "similar")
          + ClassCount(required, cand, "missing") = Len(required)
    /\ score = RMul(RDiv(RAdd(FromInt(Cardinality(ExactPositions(required, cand))),
                              RMul(Rat(4, 5),
                                   FromInt(Cardinality(SimilarPositions(required, cand))))),
                         FromInt(Len(required))),
                    Hundred)
    /\ Len(cand) <= MaxPermuted =>
          \A p \in Permutations(1..Len(cand)) :
              SkillSetScore(required, Reordered(cand, p)) = score

\* the lower-cased list under a key of a skills argument
LoweredList(skills, key) == LowerAll(Get(skills, key, PyList(<<>>)))

\* C25: _calculate_skill_set_match puts every required skill, counted with its
\* multiplicity, in exactly one of the classes exact, similar and missing (exact
\* whenever an equal possessed skill exists, also when a similar one comes
\* earlier in the candidate's list) and returns
\* (exact + 0.8 x similar) / required x 100; the score does not depend on the
\* order of the candidate's list.
C25_SkillSetMatchClasses ==
    (SkillsCalled /\ scorer_out.tech_score # NoneVal) =>
        /\ RequiredCount("technical_skills") > 0 =>
              SkillSetMatchAsStated(LoweredList(scorer_in.job_skills, "technical_skills"),
                                    LoweredList(scorer_in.candidate_skills, "technical"),
                                    scorer_out.tech_score)
        /\ RequiredCount("soft_skills") > 0 =>
              SkillSetMatchAsStated(LoweredList(scorer_in.job_skills, "soft_skills"),
                                    LoweredList(scorer_in.candidate_skills, "soft"),
                                    scorer_out.soft_score)

\* node.js is similar to nodejs and both sql are exact although mysql, which
\* is similar to sql, comes first: (2 + 0.8) / 3 x 100
C25_Witness ==
    /\ SkillsCalled
    /\ scorer_out.previous = NoneVal
    /\ scorer_in.job_skills =
          PyDict([technical_skills |-> StrList(<<"Node.js", "SQL", "SQL">>),
                  soft_skills |-> StrList(<<"Teamwork">>)])
    /\ scorer_in.candidate_skills =
          PyDict([technical |-> StrList(<<"MySQL", "SQL", "ReactJS", "nodejs">>),
                  soft |-> StrList(<<"Team work", "Teamwork">>)])
    /\ scorer_out.tech_score = Rat(280, 3)

\* the certification call had a non-empty required list and two lists of str
CertificationScored ==
    /\ scorer_in.op = "certification" /\ scorer_out # NoneVal
    /\ ~Falsy(scorer_in.job_certifications)
    /\ ~LowerAllRaises(scorer_in.job_certifications)
    /\ ~LowerAllRaises(scorer_in.candidate_certifications)

\* ignoring case, the required certification contains a possessed one or is
\* contained in one
CertificationHeld(cert, possessed) ==
    \E k \in 1..Len(possessed) :
        \/ Contains(Lower(possessed[k].str), Lower(cert.str))
        \/ Contains(Lower(cert.str), Lower(possessed[k].str))

\* C27: for a non-empty required list calculate_certification_score returns
\* matched / required x 100, where a required certification is matched exactly
\* when, ignoring case, it contains or is contained in at least one possessed
\* certification; every required certification is either matched or missing,
\* never both and never neither.
C27_CertificationScore ==
    CertificationScored =>
        LET required == scorer_in.job_certifications.list
            possessed == scorer_in.candidate_certifications.list
            held == {i \in 1..Len(required) : CertificationHeld(required[i], possessed)}
            matched == scorer_out.details.matched
            missing == scorer_out.details.missing
        IN  /\ scorer_out.score =
                  RMul(RDiv(FromInt(Cardinality(held)), FromInt(Len(required))), Hundred)
            /\ Len(matched) + Len(missing) = Len(required)
            /\ \A i \in 1..Len(required) :
                  /\ (i \in held) <=> InList(Lower(required[i].str), matched)
                  /\ InList(Lower(required[i].str), matched)
                        <=> ~InList(Lower(required[i].str), missing)

\* one of two required certifications is held under another case and as part
\* of a longer text, the other is missing
C27_Witness ==
    /\ CertificationScored
    /\ scorer_in.job_certifications = StrList(<<"AWS Certified Developer", "PMP">>)
    /\ scorer_in.candidate_certifications = StrList(<<"Project Management PMP">>)
    /\ scorer_out.details.matched = <<"pmp">>
    /\ scorer_out.details.missing = <<"aws certified developer">>
    /\ scorer_out.score = FromInt(50)

\* the overall call got a dict whose entries, where present, are dicts that
\* carry a number as score or no score
OverallScored ==
    /\ scorer_in.op = "overall" /\ scorer_out # NoneVal
    /\ IsDict(scorer_in.scores)
    /\ \A c \in OverallComponents :
          Get(scorer_in.scores, c, Absent) # Absent =>
              /\ IsDict(EntryOf(scorer_in.scores, c))
              /\ EntryHasScore(scorer_in.scores, c) =>
                    IsNum(Get(EntryOf(scorer_in.scores, c), "score", Absent))

\* C26: calculate_overall_score skips every component entry that is absent or
\* carries no score and returns the sum of score x weight divided by the sum
\* of the weights over the remaining components (weights 0.4, 0.3, 0.2, 0.1),
\* and 0 when no component carries a score; it never divides by zero.
C26_OverallSkipsUnscored ==
    OverallScored =>
        LET scored == {c \in OverallComponents : EntryHasScore(scorer_in.scores, c)}
        IN  /\ scorer_out.status = "returned"
            /\ scored = {} => scorer_out.score = FloatZero
            /\ scored # {} => scorer_out.score = OverallFloat(scorer_in.scores)

====
